---- MODULE Spec2Model ----
(***************************************************************************)
(* Model of the single-sample QC workflow of single_sample_qc_popgen:      *)
(* check_multiqc.run (threshold checks over a MultiQC report, failure      *)
(* file, Slack summary) and the helpers it calls.                          *)
(*                                                                         *)
(* JSON / Python values are tagged records [t, n, d, s]:                   *)
(*   t = "null" (None), "bool" (n = 0/1), "num" (the rational n/d, d > 0), *)
(*   "str" (s).  Python dicts that are iterated are sequences of           *)
(*   [key, value] entries in insertion order; dicts that are only looked   *)
(*   up are functions whose DOMAIN is the key set.                         *)
(***************************************************************************)
EXTENDS Integers, Sequences, FiniteSets, TLC

(***************************************************************************)
(* Python values                                                           *)
(***************************************************************************)
None == [t |-> "null", n |-> 0, d |-> 1, s |-> ""]
Bool(b) == [t |-> "bool", n |-> IF b THEN 1 ELSE 0, d |-> 1, s |-> ""]
Rat(p, q) == [t |-> "num", n |-> p, d |-> q, s |-> ""]
Num(i) == Rat(i, 1)
Str(x) == [t |-> "str", n |-> 0, d |-> 1, s |-> x]

\* bool is a subclass of int in Python: both take part in arithmetic and ordering
IsNumber(v) == v.t \in {"num", "bool"}

\* a == b on Python values
PyEq(a, b) ==
    IF IsNumber(a) /\ IsNumber(b) THEN a.n * b.d = b.n * a.d
    ELSE IF a.t = "str" /\ b.t = "str" THEN a.s = b.s
    ELSE a.t = "null" /\ b.t = "null"

\* a < b on numbers.  Comparing a number with a str (or None, list, dict)
\* raises TypeError; thresholds are numbers or booleans, so two strings are
\* never ordered against each other.
Orderable(a, b) == IsNumber(a) /\ IsNumber(b)

PyLess(a, b) == a.n * b.d < b.n * a.d

\* str(v); a non-integral number never reaches str() in run (the chimera
\* calculator formats its quotient itself), so that case is left undefined
PyStr(v) ==
    CASE v.t = "null" -> "None"
      [] v.t = "bool" -> IF v.n = 1 THEN "True" ELSE "False"
      [] v.t = "str" -> v.s
      [] v.t = "num" /\ v.d = 1 -> ToString(v.n)

RECURSIVE Pow10(_)
Pow10(k) == IF k = 0 THEN 1 ELSE 10 * Pow10(k - 1)

\* the decimal digits of n, left-padded with zeros to the given width
RECURSIVE Digits(_, _)
Digits(n, width) ==
    IF width = 0 THEN ""
    ELSE Digits(n \div 10, width - 1) \o ToString(n % 10)

\* f"{v:.<places>f}" of a non-negative number: round-half-even
Fixed(v, places) ==
    LET num == v.n * Pow10(places)
        q == num \div v.d
        r == num % v.d
        scaled == IF 2 * r > v.d \/ (2 * r = v.d /\ q % 2 = 1) THEN q + 1 ELSE q
    IN  ToString(scaled \div Pow10(places)) \o "." \o Digits(scaled % Pow10(places), places)

Fixed4(v) == Fixed(v, 4)

\* dict.get(key) on a row: None when the key is absent
Get(row, key) == IF key \in DOMAIN row THEN row[key] ELSE None

(***************************************************************************)
(* QCChecker: the static metric registry and the two calculators           *)
(***************************************************************************)
QC_MAPPING ==
    [ mean_coverage |->
        [multiqc_report_name |-> "Average sequenced coverage over genome",
         display_name |-> "Mean Coverage"],
      ploidy_estimation |->
        [calculator |-> "_calculate_ploidy",
         multiqc_report_name |-> "Ploidy estimation",
         display_name |-> "Ploidy Estimation"],
      pct_genome_gt_20x |->
        [multiqc_report_name |-> "wgs pct of genome with coverage [20x:inf)",
         display_name |-> "Pct Genome @ >20x"],
      q30_bases |->
        [multiqc_report_name |-> "Q30 bases", display_name |-> "Q30 Bases"],
      q30_bases_pct |->
        [multiqc_report_name |-> "Q30 bases pct", display_name |-> "Q30 Bases (%)"],
      contamination_verifybamid |->
        [multiqc_report_name |-> "FREEMIX",
         display_name |-> "Contamination (VerifyBamID)"],
      contamination_dragen |->
        [multiqc_report_name |-> "Estimated sample contamination",
         display_name |-> "Contamination (DRAGEN)"],
      mapping_rate_pct |->
        [multiqc_report_name |-> "Mapped reads pct",
         display_name |-> "Mapping Rate (%)"],
      duplication_rate_pct |->
        [multiqc_report_name |-> "Number of duplicate marked reads pct",
         display_name |-> "Duplication Rate (%)"],
      chimera_rate |->
        [calculator |-> "_calculate_chimera_rate", display_name |-> "Chimera Rate"],
      mean_insert_size |->
        [multiqc_report_name |-> "Insert length: mean",
         display_name |-> "Mean Insert Size"],
      insert_size_sd |->
        [multiqc_report_name |-> "Insert length: standard deviation",
         display_name |-> "Insert Size SD"],
      ti_tv_ratio |->
        [multiqc_report_name |-> "Ti/Tv ratio", display_name |-> "Ti/Tv Ratio (SNPs)"],
      het_hom_ratio |->
        [multiqc_report_name |-> "Het/Hom ratio", display_name |-> "Het/Hom Ratio"] ]

\* A call returns (value_to_check, raw_value_for_log, expected_value_for_log),
\* raw and expected kept as Python values (None or a str), or raises exc.
Result(val, raw, expected) ==
    [val |-> val, raw |-> raw, expected |-> expected, exc |-> ""]

Raise(e) == [val |-> None, raw |-> None, expected |-> None, exc |-> e]

\* _calculate_ploidy with the karyotypes of the two sex codes exchanged
_calculate_ploidy_swapped(d, sg_id, sex_mapping) ==
    LET raw_ploidy == IF "Ploidy estimation" \in DOMAIN d
                      THEN d["Ploidy estimation"] ELSE Str("Unknown")
        expected_sex_num == Get(sex_mapping, sg_id)
        expected_ploidy == IF PyEq(expected_sex_num, Num(1)) THEN "XX" ELSE "XY"
    IN  IF expected_sex_num.t = "null"
        THEN Result(None, raw_ploidy, Str("Unknown (no sex for " \o sg_id \o ")"))
        ELSE IF PyEq(raw_ploidy, Str("Unknown"))
        THEN Result(None, raw_ploidy, Str(PyStr(expected_sex_num)))
        ELSE IF ~(PyEq(expected_sex_num, Num(1)) \/ PyEq(expected_sex_num, Num(2)))
        THEN Result(None, raw_ploidy,
                    Str("Ambiguous Sex Code " \o PyStr(expected_sex_num)))
        ELSE Result(Bool(PyEq(raw_ploidy, Str(expected_ploidy))),
                    raw_ploidy, Str(expected_ploidy))

\* _calculate_ploidy without the test of lines 216-217: every sex code but 1
\* is expected to be 'XX'
_calculate_ploidy_no_ambiguous(d, sg_id, sex_mapping) ==
    LET raw_ploidy == IF "Ploidy estimation" \in DOMAIN d
                      THEN d["Ploidy estimation"] ELSE Str("Unknown")
        expected_sex_num == Get(sex_mapping, sg_id)
        expected_ploidy == IF PyEq(expected_sex_num, Num(1)) THEN "XY" ELSE "XX"
    IN  IF expected_sex_num.t = "null"
        THEN Result(None, raw_ploidy, Str("Unknown (no sex for " \o sg_id \o ")"))
        ELSE IF PyEq(raw_ploidy, Str("Unknown"))
        THEN Result(None, raw_ploidy, Str(PyStr(expected_sex_num)))
        ELSE Result(Bool(PyEq(raw_ploidy, Str(expected_ploidy))),
                    raw_ploidy, Str(expected_ploidy))

_calculate_ploidy(d, sg_id, sex_mapping) ==
    LET raw_ploidy == IF "Ploidy estimation" \in DOMAIN d
                      THEN d["Ploidy estimation"] ELSE Str("Unknown")
        expected_sex_num == Get(sex_mapping, sg_id)
        expected_ploidy == IF PyEq(expected_sex_num, Num(1)) THEN "XY" ELSE "XX"
    IN  IF expected_sex_num.t = "null"
        THEN Result(None, raw_ploidy, Str("Unknown (no sex for " \o sg_id \o ")"))
        ELSE IF PyEq(raw_ploidy, Str("Unknown"))
        THEN Result(None, raw_ploidy, Str(PyStr(expected_sex_num)))
        ELSE IF ~(PyEq(expected_sex_num, Num(1)) \/ PyEq(expected_sex_num, Num(2)))
        THEN Result(None, raw_ploidy,
                    Str("Ambiguous Sex Code " \o PyStr(expected_sex_num)))
        ELSE Result(Bool(PyEq(raw_ploidy, Str(expected_ploidy))),
                    raw_ploidy, Str(expected_ploidy))

\* d[a] / d[b]: the exception the expression raises, or "" and the quotient
TrueDiv(d, a, b) ==
    IF a \notin DOMAIN d \/ b \notin DOMAIN d THEN [exc |-> "KeyError", val |-> None]
    ELSE IF ~(IsNumber(d[a]) /\ IsNumber(d[b])) THEN [exc |-> "TypeError", val |-> None]
    ELSE IF d[b].n = 0 THEN [exc |-> "ZeroDivisionError", val |-> None]
    ELSE [exc |-> "", val |-> Rat(d[a].n * d[b].d, d[a].d * d[b].n)]

\* _calculate_chimera_rate whose except clause leaves ZeroDivisionError out
_calculate_chimera_rate_no_zero(d, sg_id, sex_mapping) ==
    LET q == TrueDiv(d, "Supplementary (chimeric) alignments", "Total alignments")
    IN  IF q.exc = "" THEN Result(q.val, Str(Fixed4(q.val)), None)
        ELSE IF q.exc \in {"KeyError", "TypeError"}
        THEN Result(None, Str("N/A"), None)
        ELSE Raise(q.exc)

_calculate_chimera_rate(d, sg_id, sex_mapping) ==
    LET q == TrueDiv(d, "Supplementary (chimeric) alignments", "Total alignments")
    IN  IF q.exc = "" THEN Result(q.val, Str(Fixed4(q.val)), None)
        ELSE IF q.exc \in {"KeyError", "ZeroDivisionError", "TypeError"}
        THEN Result(None, Str("N/A"), None)
        ELSE Raise(q.exc)

(***************************************************************************)
(* Ordered dicts: sequences of [key, value] entries with distinct keys     *)
(***************************************************************************)
Entry(k, v) == [key |-> k, value |-> v]

Keys(dict) == {dict[i].key : i \in 1..Len(dict)}

HasKey(dict, k) == \E i \in 1..Len(dict) : dict[i].key = k

Lookup(dict, k) == dict[CHOOSE i \in 1..Len(dict) : dict[i].key = k].value

\* dict[k].append(line) on a defaultdict(list)
AppendLine(dict, k, line) ==
    IF HasKey(dict, k)
    THEN [i \in 1..Len(dict) |->
            IF dict[i].key = k THEN Entry(k, Append(dict[i].value, line)) ELSE dict[i]]
    ELSE Append(dict, Entry(k, <<line>>))

(***************************************************************************)
(* build_qc_thresholds, get_metric_value, the checks, format_log_line      *)
(***************************************************************************)
\* get_config()['qc_thresholds'].get(seq_type, {}).get(config_key, {})
ThresholdTable(conf, seq_type, config_key) ==
    IF seq_type \notin DOMAIN conf.qc_thresholds THEN <<>>
    ELSE IF config_key \notin DOMAIN conf.qc_thresholds[seq_type] THEN <<>>
    ELSE conf.qc_thresholds[seq_type][config_key]

\* {'threshold': threshold, **QC_MAPPING[metric]}, or the default names
ThresholdEntry(metric, threshold) ==
    IF metric \in DOMAIN QC_MAPPING
    THEN QC_MAPPING[metric] @@ ("threshold" :> threshold)
    ELSE [threshold |-> threshold, multiqc_report_name |-> metric,
          display_name |-> metric]

\* build_qc_thresholds that drops the metrics QC_MAPPING does not define
build_qc_thresholds_known_only(seq_type, config_key, conf) ==
    LET threshold_d == SelectSeq(ThresholdTable(conf, seq_type, config_key),
                                 LAMBDA e : e.key \in DOMAIN QC_MAPPING)
    IN  [i \in 1..Len(threshold_d) |->
            Entry(threshold_d[i].key,
                  ThresholdEntry(threshold_d[i].key, threshold_d[i].value))]

build_qc_thresholds(seq_type, config_key, conf) ==
    LET threshold_d == ThresholdTable(conf, seq_type, config_key)
    IN  [i \in 1..Len(threshold_d) |->
            Entry(threshold_d[i].key,
                  ThresholdEntry(threshold_d[i].key, threshold_d[i].value))]

\* the metrics build_qc_thresholds logs a warning for
UnknownMetrics(seq_type, config_key, conf) ==
    {m \in Keys(ThresholdTable(conf, seq_type, config_key)) : m \notin DOMAIN QC_MAPPING}

get_metric_value(sex_mapping, metric_config, val_by_metric, sg_id) ==
    IF "calculator" \in DOMAIN metric_config
    THEN IF metric_config["calculator"] = "_calculate_ploidy"
         THEN _calculate_ploidy(val_by_metric, sg_id, sex_mapping)
         ELSE _calculate_chimera_rate(val_by_metric, sg_id, sex_mapping)
    ELSE LET val == Get(val_by_metric, metric_config["multiqc_report_name"])
         IN  Result(val, Str(PyStr(val)), None)

\* (check_type, fail_sign, good_sign); the good signs of min and max are the
\* characters U+2265 and U+2264 in the source
\* the check definitions with 'max' ahead of 'min'
check_definitions_max_first ==
    << [check_type |-> "max", fail_sign |-> ">", good_sign |-> "<="],
       [check_type |-> "min", fail_sign |-> "<", good_sign |-> ">="],
       [check_type |-> "equality", fail_sign |-> "!=", good_sign |-> "=="] >>

check_definitions ==
    << [check_type |-> "min", fail_sign |-> "<", good_sign |-> ">="],
       [check_type |-> "max", fail_sign |-> ">", good_sign |-> "<="],
       [check_type |-> "equality", fail_sign |-> "!=", good_sign |-> "=="] >>

\* is_fail with an exclusive minimum: a value equal to the threshold fails
is_fail_min_exclusive(check_type, val, thresh) ==
    CASE check_type = "min" -> PyLess(val, thresh) \/ PyEq(val, thresh)
      [] check_type = "max" -> PyLess(thresh, val)
      [] check_type = "equality" -> ~PyEq(val, thresh)

\* is_fail with an exclusive maximum: a value equal to the threshold fails
is_fail_max_exclusive(check_type, val, thresh) ==
    CASE check_type = "min" -> PyLess(val, thresh)
      [] check_type = "max" -> PyLess(thresh, val) \/ PyEq(val, thresh)
      [] check_type = "equality" -> ~PyEq(val, thresh)

\* the lambda of a check definition: TRUE when the check fails
is_fail(check_type, val, thresh) ==
    CASE check_type = "min" -> PyLess(val, thresh)
      [] check_type = "max" -> PyLess(thresh, val)
      [] check_type = "equality" -> ~PyEq(val, thresh)

\* the exception is_fail(val, thresh) raises, "" when it returns
is_fail_exc(check_type, val, thresh) ==
    IF check_type \in {"min", "max"} /\ ~Orderable(val, thresh)
    THEN "TypeError" ELSE ""

format_log_line(display_name, val_to_check, threshold, sign, check_type, raw_val_for_log, expected_val_for_log) ==
    IF check_type = "equality" /\ val_to_check.t = "bool"
    THEN display_name \o " is " \o PyStr(raw_val_for_log)
            \o " (expected " \o PyStr(expected_val_for_log) \o ")"
    ELSE IF IsNumber(val_to_check) /\ IsNumber(threshold)
    THEN display_name \o "=" \o Fixed4(val_to_check) \o " " \o sign \o " "
            \o Fixed4(threshold)
    ELSE display_name \o "=" \o PyStr(val_to_check) \o " " \o sign \o " "
            \o PyStr(threshold)

(***************************************************************************)
(* JSON: objects as trees, files as token texts, json.dump and json.load   *)
(***************************************************************************)
\* a JSON value is a scalar (None, Bool, Num, Rat, Str), a dict or a list
JDict(items) == [t |-> "dict", items |-> items]

JList(items) == [t |-> "list", items |-> items]

\* the tokens of a JSON text
Tok(x) == [tok |-> x]

Lit(v) == [tok |-> "scalar", v |-> v]

\* d[k] = v: a key already present keeps its place
SetItem(dict, k, v) ==
    IF HasKey(dict, k)
    THEN [i \in 1..Len(dict) |-> IF dict[i].key = k THEN Entry(k, v) ELSE dict[i]]
    ELSE Append(dict, Entry(k, v))

RECURSIVE json_dump(_)
RECURSIVE DumpMembers(_)
RECURSIVE DumpElements(_)
\* json.dump(obj, f, indent=4), white space left out
json_dump(obj) ==
    IF obj.t = "dict" THEN <<Tok("{")>> \o DumpMembers(obj.items) \o <<Tok("}")>>
    ELSE IF obj.t = "list" THEN <<Tok("[")>> \o DumpElements(obj.items) \o <<Tok("]")>>
    ELSE <<Lit(obj)>>

DumpMembers(items) ==
    IF items = <<>> THEN <<>>
    ELSE <<Lit(Str(Head(items).key)), Tok(":")>> \o json_dump(Head(items).value)
            \o (IF Len(items) > 1 THEN <<Tok(",")>> ELSE <<>>)
            \o DumpMembers(Tail(items))

DumpElements(items) ==
    IF items = <<>> THEN <<>>
    ELSE json_dump(Head(items))
            \o (IF Len(items) > 1 THEN <<Tok(",")>> ELSE <<>>)
            \o DumpElements(Tail(items))

ParseError == [ok |-> FALSE, v |-> None, next |-> 0]

Parsed(v, next) == [ok |-> TRUE, v |-> v, next |-> next]

IsTok(text, i, x) == i <= Len(text) /\ text[i].tok = x

RECURSIVE ParseValue(_, _)
RECURSIVE ParseMembers(_, _, _)
RECURSIVE ParseElements(_, _, _)
\* the JSON value that starts at token i of text
ParseValue(text, i) ==
    IF IsTok(text, i, "scalar") THEN Parsed(text[i].v, i + 1)
    ELSE IF IsTok(text, i, "{")
    THEN IF IsTok(text, i + 1, "}") THEN Parsed(JDict(<<>>), i + 2)
         ELSE ParseMembers(text, i + 1, <<>>)
    ELSE IF IsTok(text, i, "[")
    THEN IF IsTok(text, i + 1, "]") THEN Parsed(JList(<<>>), i + 2)
         ELSE ParseElements(text, i + 1, <<>>)
    ELSE ParseError

\* the members of an object from token i on, after the members in acc
ParseMembers(text, i, acc) ==
    IF ~(IsTok(text, i, "scalar") /\ text[i].v.t = "str" /\ IsTok(text, i + 1, ":"))
    THEN ParseError
    ELSE LET member == ParseValue(text, i + 2)
             items == SetItem(acc, text[i].v.s, member.v)
         IN  IF ~member.ok THEN ParseError
             ELSE IF IsTok(text, member.next, ",")
             THEN ParseMembers(text, member.next + 1, items)
             ELSE IF IsTok(text, member.next, "}")
             THEN Parsed(JDict(items), member.next + 1)
             ELSE ParseError

\* the elements of an array from token i on, after the elements in acc
ParseElements(text, i, acc) ==
    LET element == ParseValue(text, i)
    IN  IF ~element.ok THEN ParseError
        ELSE IF IsTok(text, element.next, ",")
        THEN ParseElements(text, element.next + 1, Append(acc, element.v))
        ELSE IF IsTok(text, element.next, "]")
        THEN Parsed(JList(Append(acc, element.v)), element.next + 1)
        ELSE ParseError

\* json.load(f): the value of the whole text, or a JSONDecodeError
json_load(text) ==
    LET parsed == ParseValue(text, 1)
    IN  IF parsed.ok /\ parsed.next = Len(text) + 1
        THEN [ok |-> TRUE, v |-> parsed.v]
        ELSE [ok |-> FALSE, v |-> None]

RECURSIVE SetToSeq(_)
SetToSeq(S) ==
    IF S = {} THEN <<>>
    ELSE LET x == CHOOSE y \in S : TRUE IN <<x>> \o SetToSeq(S \ {x})

\* a row of the report (field -> value) as a JSON object and back
RowTree(row) ==
    LET fields == SetToSeq(DOMAIN row)
    IN  JDict([i \in 1..Len(fields) |-> Entry(fields[i], row[fields[i]])])

RowOf(tree) == [f \in Keys(tree.items) |-> Lookup(tree.items, f)]

\* a tool section (sample id -> row, in order) as a JSON object
SectionTree(section) ==
    JDict([j \in 1..Len(section) |-> Entry(section[j].key, RowTree(section[j].value))])

\* a general-stats table (tool -> section, in order) as a JSON object
ReportTree(report) ==
    JDict([i \in 1..Len(report) |-> Entry(report[i].key, SectionTree(report[i].value))])

\* a failure mapping (sample id -> messages, in order) as a JSON object and back
FailuresTree(bad_lines) ==
    JDict([i \in 1..Len(bad_lines) |->
            Entry(bad_lines[i].key,
                  JList([j \in 1..Len(bad_lines[i].value) |-> Str(bad_lines[i].value[j])]))])

FailuresOf(tree) ==
    [i \in 1..Len(tree.items) |->
        Entry(tree.items[i].key,
              [j \in 1..Len(tree.items[i].value.items) |-> tree.items[i].value.items[j].s])]

(***************************************************************************)
(* get_sgid_reported_sex_mapping and load_json                             *)
(***************************************************************************)
\* the mapping that takes reportedSex first and the portal field as fallback
RECURSIVE get_sgid_reported_sex_mapping_fallback_first(_)
get_sgid_reported_sex_mapping_fallback_first(response) ==
    IF response = <<>> THEN << >>
    ELSE LET sg == response[Len(response)]
             before == get_sgid_reported_sex_mapping_fallback_first(
                            SubSeq(response, 1, Len(response) - 1))
             participant_meta == sg.participant.meta
             preferred_field ==
                IF participant_meta.isdict
                THEN Get(participant_meta.items, "participant_portal_reported_sex")
                ELSE None
             fallback_field == sg.participant.reportedSex
         IN  IF fallback_field.t # "null" THEN (sg.id :> fallback_field) @@ before
             ELSE IF preferred_field.t # "null" THEN (sg.id :> preferred_field) @@ before
             ELSE before

\* response: the sequencing groups of the cohort, each
\* [id, participant |-> [reportedSex, meta |-> [isdict, items]]]
RECURSIVE get_sgid_reported_sex_mapping(_)
get_sgid_reported_sex_mapping(response) ==
    IF response = <<>> THEN << >>
    ELSE LET sg == response[Len(response)]
             before == get_sgid_reported_sex_mapping(SubSeq(response, 1, Len(response) - 1))
             participant_meta == sg.participant.meta
             preferred_field ==
                IF participant_meta.isdict
                THEN Get(participant_meta.items, "participant_portal_reported_sex")
                ELSE None
             fallback_field == sg.participant.reportedSex
         IN  IF preferred_field.t # "null" THEN (sg.id :> preferred_field) @@ before
             ELSE IF fallback_field.t # "null" THEN (sg.id :> fallback_field) @@ before
             ELSE before

\* what load_json returns or raises
Loaded(data) == [exc |-> "", isdict |-> data.t = "dict", data |-> data]

LoadError(e) == [exc |-> e, isdict |-> FALSE, data |-> None]

\* load_json that raises for a missing file whatever allow_missing says
load_json_missing_raises(fs, path, extract_key, allow_missing) ==
    IF path \notin DOMAIN fs THEN LoadError("FileNotFoundError")
    ELSE LET parsed == json_load(fs[path].text)
             data == parsed.v
         IN  IF ~parsed.ok THEN LoadError("JSONDecodeError")
             ELSE IF extract_key = "" THEN Loaded(data)
             ELSE IF data.t # "dict" THEN Loaded(data)
             ELSE IF HasKey(data.items, extract_key)
             THEN Loaded(Lookup(data.items, extract_key))
             ELSE Loaded(JDict(<<>>))

\* a file is [text]: its content as JSON tokens
load_json(fs, path, extract_key, allow_missing) ==
    IF path \notin DOMAIN fs
    THEN IF allow_missing THEN Loaded(JDict(<<>>)) ELSE LoadError("FileNotFoundError")
    ELSE LET parsed == json_load(fs[path].text)
             data == parsed.v
         IN  IF ~parsed.ok THEN LoadError("JSONDecodeError")
             ELSE IF extract_key = "" THEN Loaded(data)
             ELSE IF data.t # "dict" THEN Loaded(data)
             ELSE IF HasKey(data.items, extract_key)
             THEN Loaded(Lookup(data.items, extract_key))
             ELSE Loaded(JDict(<<>>))

(***************************************************************************)
(* State                                                                   *)
(***************************************************************************)
VARIABLES
    config,              \* get_config(): qc_thresholds, sequencing_type, [workflow.multiqc]
    cohort,              \* the Cohort: id, sequencing groups, dataset web url set or not
    metamist,            \* what REPORTED_SEX_QUERY answers for the cohort
    files,               \* the bucket: path -> file
    slack,               \* texts handed to send_message, in order
    pc,                  \* position of check_multiqc.run
    html_url,            \* TRUE once run has bound its local html_url
    qc_checker,          \* the QCChecker of the run
    bad_lines_by_sample, \* the failure mapping, in insertion order
    k,                   \* index of the current entry of check_definitions
    threshold_map,       \* build_qc_thresholds of the current check type
    w,                   \* index of the current (section, sample, metric) iteration
    last,                \* what the latest iteration did
    warned,              \* (check type, metric) pairs a warning was logged for
    text,                \* the summary post_to_slack built and logged, "" if none
    error,               \* the exception that ended the run, "" if none
    run,                 \* number of the check run: 1, or more after a rerun
    rpc,                 \* position of register_qc_metamist.run
    failed_samples,      \* the failure report register_qc_metamist.run loaded
    meta_to_update,      \* the metrics build_sg_multiqc_meta_dict extracted
    logged,              \* error messages register_qc_metamist logged
    g,                   \* index of the sequencing group the update loop is at
    mutations,           \* mutations sent to the metadata store, in order
    rerror,              \* the exception that ended the registration, "" if none
    entry_point,         \* what builds the jobs: "stages", "multiqc", or "run" (no driver)
    eager_bind,          \* TRUE when PythonJob.call checks its arguments at queue time
    bucket,              \* the paths that exist in the output bucket
    driver,              \* the stage the driver queues next, "submitted", "aborted"
    derror,              \* the exception that ended the driver, "" if none
    calls,               \* the calls handed to PythonJob.call, in order
    jobs                 \* the jobs of the batch: status, dependencies, call, outputs

vars == <<config, cohort, metamist, files, slack, pc, html_url, qc_checker,
          bad_lines_by_sample, k, threshold_map, w, last, warned, text, error, run,
          rpc, failed_samples, meta_to_update, logged, g, mutations, rerror,
          entry_point, eager_bind, bucket, driver, derror, calls, jobs>>

\* the state of the driver and of the batch
wfvars == <<entry_point, eager_bind, bucket, driver, derror, calls, jobs>>

\* the state of register_qc_metamist.run
regvars == <<rpc, failed_samples, meta_to_update, logged, g, mutations, rerror>>

\* the state of check_multiqc.run
checkvars == <<slack, pc, html_url, qc_checker, bad_lines_by_sample, k, threshold_map,
               w, last, warned, text, error, run>>

multiqc_data_path == "multiqc_data.json"

output == "failed_samples.json"

\* the arguments of register_qc_metamist.run
failed_samples_path == output

registered_path == "registered.json"

\* the path of the HTML report
multiqc_html_path == "multiqc_report.html"

(***************************************************************************)
(* Inputs: configurations, cohorts, reports                                *)
(***************************************************************************)
MaxVal == 2          \* metric values are 0..MaxVal, thresholds are 1
MaxCohort == 40      \* sequencing groups in a cohort
MaxSections == 2     \* tool sections in a report
MaxSex == 3          \* sex codes are 0..MaxSex
MaxFailed == 3       \* failing samples in the failure-rate reports
TotalUnit == 20      \* 'Total alignments' is 0, TotalUnit or 2 * TotalUnit
MaxRuns == 2         \* check runs of the cohort before the registration
MaxGroups == 2       \* sequencing groups of a cohort the driver queues jobs for

Threshold == Num(1)

ChimeraThreshold == Rat(1, TotalUnit)

SgId(i) == "CPG" \o ToString(i)

CheckTypes == {"min", "max", "equality"}

COVERAGE == "Average sequenced coverage over genome"

CellValues == {None, Str("NA"), Bool(TRUE)} \cup {Num(i) : i \in 0..MaxVal}

\* all rows (dicts) over the given fields: each field absent or one of values
RowsOver(fields, values) == UNION {[D -> values] : D \in SUBSET fields}

Item(check_type, metric, threshold) ==
    [check_type |-> check_type, metric |-> metric, threshold |-> threshold]

\* the sub-table of one check type, in configuration order
RECURSIVE SubTable(_, _)
SubTable(items, check_type) ==
    IF items = <<>> THEN <<>>
    ELSE LET rest == SubTable(Tail(items), check_type)
         IN  IF Head(items).check_type = check_type
             THEN <<Entry(Head(items).metric, Head(items).threshold)>> \o rest
             ELSE rest

\* qc_thresholds.genome for a list of configured items
Tables(items) ==
    [c \in {items[i].check_type : i \in 1..Len(items)} |-> SubTable(items, c)]

Distinct(items) ==
    \A i, j \in 1..Len(items) :
        i # j => <<items[i].check_type, items[i].metric>>
                    # <<items[j].check_type, items[j].metric>>

\* every qc_thresholds.genome with at most two entries drawn from choices
TablesOver(choices) ==
    {Tables(<<>>)} \cup {Tables(<<a>>) : a \in choices}
        \cup {Tables(<<a, b>>) : <<a, b>> \in {p \in choices \X choices : Distinct(p)}}

\* multiqc: the options set in the [workflow.multiqc] table
ConfigOf(tables, seq_type, multiqc) ==
    [qc_thresholds |-> ("genome" :> tables), sequencing_type |-> seq_type,
     multiqc |-> multiqc]

\* send_to_slack set to send, next to the other options of the table
ConfigWith(tables, seq_type, send, multiqc) ==
    ConfigOf(tables, seq_type, ("send_to_slack" :> Bool(send)) @@ multiqc)

Config(tables, seq_type, send) == ConfigWith(tables, seq_type, send, <<>>)

Participant(reportedSex, meta) == [reportedSex |-> reportedSex, meta |-> meta]

NoMeta == [isdict |-> FALSE, items |-> <<>>]

Meta(items) == [isdict |-> TRUE, items |-> items]

DefaultParticipant == Participant(Num(2), Meta(<<>>))

Cohort(n, web_url) ==
    [id |-> "COH1", sgs |-> [i \in 1..n |-> SgId(i)], web_url |-> web_url,
     dataset |-> "dataset"]

\* the answer for a cohort of n groups, the first with participant p1
Response(n, p1) ==
    [i \in 1..n |-> [id |-> SgId(i),
                     participant |-> IF i = 1 THEN p1 ELSE DefaultParticipant]]

ToolNames == <<"DRAGEN", "DRAGEN_3", "DRAGEN_4", "DRAGEN_5">>

\* the text of a JSON value
File(tree) == [text |-> json_dump(tree)]

\* an aggregated report whose general-stats table is report (tool -> section)
ReportFileOf(report) ==
    File(JDict(<<Entry("report_general_stats_data", ReportTree(report))>>))

ReportFile(sections) ==
    ReportFileOf([i \in 1..Len(sections) |-> Entry(ToolNames[i], sections[i])])

ScenarioWith(conf, coh, resp, fs) ==
    [config |-> conf, cohort |-> coh, metamist |-> resp, files |-> fs]

Scenario(conf, coh, resp, sections) ==
    ScenarioWith(conf, coh, resp, multiqc_data_path :> ReportFile(sections))

\* one sample, every value of two directly looked-up fields, every table of
\* at most two thresholds on them
ThresholdScenarios ==
    { Scenario(Config(t, "genome", TRUE), Cohort(1, TRUE), Response(1, DefaultParticipant),
               << <<Entry(SgId(1), row)>> >>) :
        t \in TablesOver({Item(c, m, Threshold) :
                            c \in CheckTypes, m \in {"mean_coverage", "unknown_metric"}}),
        row \in RowsOver({COVERAGE, "unknown_metric"}, CellValues) }

\* up to MaxSections sections over two samples, coverage passing or failing
ShapeSections ==
    LET rows == {(COVERAGE :> Num(0)), (COVERAGE :> Num(MaxVal))}
    IN  {<<>>} \cup {<<Entry(SgId(i), r)>> : i \in 1..2, r \in rows}
        \cup {<<Entry(SgId(i), r1), Entry(SgId(3 - i), r2)>> :
                i \in 1..2, r1 \in rows, r2 \in rows}

ShapeScenarios ==
    { Scenario(Config(t, "genome", TRUE), Cohort(2, TRUE), Response(2, DefaultParticipant),
               sections) :
        t \in {Tables(<<Item("min", "mean_coverage", Threshold)>>),
               Tables(<<Item("min", "mean_coverage", Threshold),
                        Item("max", "mean_coverage", Threshold)>>)},
        sections \in UNION {[1..n -> ShapeSections] : n \in 0..MaxSections} }

SexValues == {None, Str("F")} \cup {Num(i) : i \in 0..MaxSex}

PloidyValues == {None} \cup {Str(x) : x \in {"Unknown", "XX", "XY", "XXY", "XO"}}

\* one sample, in the cohort or not, every ploidy call against every way
\* the registry can hold the participant's sex
PloidyScenarios ==
    { Scenario(Config(Tables(<<Item("equality", "ploidy_estimation", Bool(TRUE))>>),
                      "genome", TRUE),
               Cohort(1, TRUE), Response(1, Participant(reported, meta)),
               << <<Entry(SgId(i), row)>> >>) :
        reported \in SexValues,
        meta \in {NoMeta} \cup {Meta(m) :
                    m \in RowsOver({"participant_portal_reported_sex"}, SexValues)},
        i \in 0..1,
        row \in RowsOver({"Ploidy estimation"}, PloidyValues) }

\* one sample, every pair of alignment counts, for a configured and an
\* unconfigured sequencing type
ChimeraScenarios ==
    { Scenario(Config(Tables(<<Item(c, "chimera_rate", ChimeraThreshold)>>), st, TRUE),
               Cohort(1, TRUE), Response(1, DefaultParticipant),
               << <<Entry(SgId(1), row)>> >>) :
        c \in {"min", "max"}, st \in {"genome", "exome"},
        row \in { s @@ t :
                    s \in RowsOver({"Supplementary (chimeric) alignments"}, CellValues),
                    t \in RowsOver({"Total alignments"},
                                   {None, Str("NA"), Num(0), Num(TotalUnit),
                                    Num(2 * TotalUnit)}) } }

\* f failing samples in a cohort of n, with and without web url, with
\* send_to_slack set to true, to false, or not set
FailureRateScenarios ==
    { Scenario(ConfigOf(Tables(<<Item("min", "mean_coverage", Threshold)>>), "genome",
                        multiqc),
               Cohort(n, web_url), Response(n, DefaultParticipant),
               << [i \in 1..f |-> Entry(SgId(i), (COVERAGE :> Num(0)))] >>) :
        n \in 0..MaxCohort, f \in 0..MaxFailed, web_url \in BOOLEAN,
        multiqc \in {<<>>} \cup {("send_to_slack" :> Bool(b)) : b \in BOOLEAN} }

\* the ways a report can hold a tool: not at all, or with one of sections
Optional(tool, sections) == {<<>>} \cup {<<Entry(tool, sec)>> : sec \in sections}

\* samples CPG1 (in the cohort) and CPG3 (not in it), coverage absent,
\* failing or passing
DragenSections ==
    LET rows == RowsOver({COVERAGE}, {Num(0), Num(MaxVal)})
    IN  {<<>>} \cup {<<Entry(SgId(i), r)>> : i \in {1, 3}, r \in rows}
        \cup {<<Entry(SgId(1), r1), Entry(SgId(3), r2)>> : r1 \in rows, r2 \in rows}

PloidySections ==
    {<<>>, <<Entry(SgId(1), <<>>)>>}
        \cup {<<Entry(SgId(i), ("Ploidy estimation" :> Str("XX")))>> : i \in 1..2}

\* a file that is not JSON: an object that is never closed
BrokenFile == [text |-> <<Tok("{")>>]

\* a cohort of two groups, reports that hold or lack each of three tools,
\* with and without deactivation, with no failure file or a broken one
RegisterScenarios ==
    { ScenarioWith(ConfigWith(Tables(<<Item("min", "mean_coverage", Threshold)>>),
                              "genome", TRUE, multiqc),
                   Cohort(2, TRUE), Response(2, DefaultParticipant),
                   (multiqc_data_path :> ReportFileOf(dragen \o ploidy \o freemix)) @@ fs) :
        multiqc \in {<<>>} \cup {("deactivate_sgs" :> Bool(b)) : b \in BOOLEAN},
        dragen \in Optional("DRAGEN", DragenSections),
        ploidy \in Optional("DRAGEN_4", PloidySections),
        freemix \in Optional("verifybamid", {<<Entry(SgId(1), ("FREEMIX" :> Num(0)))>>}),
        fs \in {<<>>, (failed_samples_path :> BrokenFile)} }

\* report files that are absent, not JSON, not a mapping, or without the
\* 'report_general_stats_data' key, and a well-formed one
MalformedScenarios ==
    LET report == <<Entry("DRAGEN", <<Entry(SgId(1), (COVERAGE :> Num(0)))>>)>>
        good == ReportFileOf(report)
        reports == {good, BrokenFile, [text |-> <<>>],
                    [text |-> SubSeq(good.text, 1, Len(good.text) - 1)],
                    File(None), File(Num(1)), File(JList(<<>>)),
                    File(JList(<<ReportTree(report)>>)), File(JDict(<<>>)),
                    File(JDict(<<Entry("report_saved_raw_data", ReportTree(report))>>))}
    IN  { ScenarioWith(ConfigWith(Tables(<<Item("min", "mean_coverage", Threshold)>>),
                                  "genome", TRUE, ("deactivate_sgs" :> Bool(b))),
                       Cohort(n, TRUE), Response(n, DefaultParticipant), fs) :
            b \in BOOLEAN, n \in 1..2,
            fs \in {<<>>} \cup {(multiqc_data_path :> f) : f \in reports} }

Scenarios ==
    ThresholdScenarios \cup ShapeScenarios \cup PloidyScenarios
        \cup ChimeraScenarios \cup FailureRateScenarios
        \cup RegisterScenarios \cup MalformedScenarios

(***************************************************************************)
(* check_multiqc.run                                                       *)
(***************************************************************************)
NoEvaluation ==
    [check_type |-> "", section |-> 0, sg_id |-> "", metric |-> "",
     val_by_metric |-> <<>>, val |-> None, raw |-> None, expected |-> None,
     threshold |-> None, outcome |-> "none", line |-> ""]

\* run_workflow.py, line 25
Stages == <<"RunMultiQc", "CheckMultiQc", "RegisterQcMetricsToMetamist">>

\* the jobs multiqc() creates (run_multiqc.py, lines 220, 280, 296)
LegacyJobs == <<"mqc_j", "check_j", "register_qc_j">>

JobNames == {Stages[i] : i \in 1..Len(Stages)} \cup {LegacyJobs[i] : i \in 1..Len(LegacyJobs)}

\* a job that calls no Python function
NoCall == [fn |-> "", args |-> 0, kwargs |-> {}]

NoJob == [status |-> "none", depends_on |-> {}, call |-> NoCall, writes |-> {}]

NoJobs == [j \in JobNames |-> NoJob]

NoChecker == [cohort_sgs |-> <<>>, sex_mapping |-> <<>>, multiqc_data |-> JDict(<<>>)]

Init ==
    /\ \E sc \in Scenarios :
        /\ config = sc.config
        /\ cohort = sc.cohort
        /\ metamist = sc.metamist
        /\ files = sc.files
    /\ slack = <<>>
    /\ pc = "start"
    /\ html_url = FALSE
    /\ qc_checker = NoChecker
    /\ bad_lines_by_sample = <<>>
    /\ k = 1
    /\ threshold_map = <<>>
    /\ w = 1
    /\ last = NoEvaluation
    /\ warned = {}
    /\ text = ""
    /\ error = ""
    /\ run = 1
    /\ rpc = "idle"
    /\ failed_samples = JDict(<<>>)
    /\ meta_to_update = JDict(<<>>)
    /\ logged = <<>>
    /\ g = 1
    /\ mutations = <<>>
    /\ rerror = ""
    /\ entry_point = "run"
    /\ eager_bind = FALSE
    /\ bucket = {}
    /\ driver = "none"
    /\ derror = ""
    /\ calls = <<>>
    /\ jobs = NoJobs

\* the (sample, row) pairs of all sections, in iteration order
RECURSIVE SectionRows(_, _)
SectionRows(multiqc_data, i) ==
    IF i > Len(multiqc_data.items) THEN <<>>
    ELSE LET section_data == multiqc_data.items[i].value
         IN  [j \in 1..Len(section_data.items) |->
                [section |-> i, sg_id |-> section_data.items[j].key,
                 val_by_metric |-> RowOf(section_data.items[j].value)]]
             \o SectionRows(multiqc_data, i + 1)

\* the iterations of the section / sample / metric loops for one check type
Work(multiqc_data, tmap) ==
    LET rows == SectionRows(multiqc_data, 1)
        m == Len(tmap)
    IN  [i \in 1..(Len(rows) * m) |->
            [section |-> rows[((i - 1) \div m) + 1].section,
             sg_id |-> rows[((i - 1) \div m) + 1].sg_id,
             val_by_metric |-> rows[((i - 1) \div m) + 1].val_by_metric,
             metric |-> tmap[((i - 1) % m) + 1].key,
             metric_config |-> tmap[((i - 1) % m) + 1].value]]

\* lines 373-387: bind html_url, load the report, construct the QCChecker
Start ==
    /\ pc = "start"
    /\ LET loaded == load_json(files, multiqc_data_path, "report_general_stats_data", FALSE)
       IN  /\ html_url' = cohort.web_url
           /\ IF loaded.exc # ""
              THEN /\ pc' = "crashed"
                   /\ error' = loaded.exc
                   /\ UNCHANGED qc_checker
              ELSE /\ pc' = "build"
                   /\ error' = ""
                   /\ qc_checker' = [cohort_sgs |-> cohort.sgs,
                                     sex_mapping |-> get_sgid_reported_sex_mapping(metamist),
                                     multiqc_data |-> loaded.data]
    /\ bad_lines_by_sample' = <<>>
    /\ k' = 1
    /\ w' = 1
    /\ UNCHANGED <<config, cohort, metamist, files, slack, threshold_map, last, warned,
                   text>>
    /\ UNCHANGED <<run, regvars, wfvars>>

\* where run goes when the loops of check type number i are over
AfterCheckType(i) == IF i < Len(check_definitions) THEN "build" ELSE "post"

\* lines 393-395: the next check type and its threshold table
BuildThresholds ==
    /\ pc = "build"
    /\ LET check_type == check_definitions[k].check_type
           tmap == build_qc_thresholds(config.sequencing_type, check_type, config)
       IN  /\ threshold_map' = tmap
           /\ warned' = warned \cup
                {<<check_type, m>> : m \in UnknownMetrics(config.sequencing_type, check_type, config)}
           /\ w' = 1
           /\ IF qc_checker.multiqc_data.t # "dict"
              THEN /\ pc' = "sections"
                   /\ k' = k
              ELSE IF Work(qc_checker.multiqc_data, tmap) = <<>>
              THEN /\ pc' = AfterCheckType(k)
                   /\ k' = IF k < Len(check_definitions) THEN k + 1 ELSE k
              ELSE /\ pc' = "check"
                   /\ k' = k
    /\ UNCHANGED <<config, cohort, metamist, files, slack, html_url, qc_checker,
                   bad_lines_by_sample, last, text, error>>
    /\ UNCHANGED <<run, regvars, wfvars>>

\* line 398 on loaded data that is not a mapping: it has no .values()
IterateSections ==
    /\ pc = "sections"
    /\ pc' = "crashed"
    /\ error' = "AttributeError"
    /\ UNCHANGED <<config, cohort, metamist, files, slack, html_url, qc_checker,
                   bad_lines_by_sample, k, threshold_map, w, last, warned, text>>
    /\ UNCHANGED <<run, regvars, wfvars>>

\* the None test left out: every resolved value is checked
Skipped_never(val_to_check) == FALSE

\* val_to_check is None: the metric is skipped
Skipped(val_to_check) == val_to_check.t = "null"

\* lines 402-444: one iteration of the innermost loop
Evaluate ==
    /\ pc = "check"
    /\ LET work == Work(qc_checker.multiqc_data, threshold_map)
           it == work[w]
           def == check_definitions[k]
           got == get_metric_value(qc_checker.sex_mapping, it.metric_config,
                                   it.val_by_metric, it.sg_id)
           threshold == it.metric_config["threshold"]
           display_name == it.metric_config["display_name"]
           raised == IF got.exc # "" THEN got.exc
                     ELSE IF Skipped(got.val) THEN ""
                     ELSE is_fail_exc(def.check_type, got.val, threshold)
           is_failure == is_fail(def.check_type, got.val, threshold)
           line == format_log_line(display_name, got.val, threshold,
                                   IF is_failure THEN def.fail_sign ELSE def.good_sign,
                                   def.check_type, got.raw, got.expected)
           seen == [check_type |-> def.check_type, section |-> it.section,
                    sg_id |-> it.sg_id, metric |-> it.metric,
                    val_by_metric |-> it.val_by_metric, val |-> got.val,
                    raw |-> got.raw, expected |-> got.expected,
                    threshold |-> threshold, outcome |-> "none", line |-> ""]
       IN  IF raised # ""
           THEN /\ pc' = "crashed"
                /\ error' = raised
                /\ last' = [seen EXCEPT !.outcome = "raised"]
                /\ UNCHANGED <<bad_lines_by_sample, k, w>>
           ELSE /\ error' = ""
                /\ IF Skipped(got.val)
                   THEN /\ last' = [seen EXCEPT !.outcome = "skipped"]
                        /\ UNCHANGED bad_lines_by_sample
                   ELSE IF is_failure
                   THEN /\ last' = [seen EXCEPT !.outcome = "failed", !.line = line]
                        /\ bad_lines_by_sample' =
                                AppendLine(bad_lines_by_sample, it.sg_id, line)
                   ELSE /\ last' = [seen EXCEPT !.outcome = "passed", !.line = line]
                        /\ UNCHANGED bad_lines_by_sample
                /\ IF w < Len(work)
                   THEN /\ w' = w + 1
                        /\ UNCHANGED <<pc, k>>
                   ELSE /\ w' = 1
                        /\ pc' = AfterCheckType(k)
                        /\ k' = IF k < Len(check_definitions) THEN k + 1 ELSE k
    /\ UNCHANGED <<config, cohort, metamist, files, slack, html_url, qc_checker,
                   threshold_map, warned, text>>
    /\ UNCHANGED <<run, regvars, wfvars>>

(***************************************************************************)
(* Post-checking steps: write_failures_to_json and post_to_slack           *)
(***************************************************************************)
\* constants.FAILURE_RATE_THRESHOLD: 5%
FAILURE_RATE_THRESHOLD == Rat(5, 100)

\* a write that dumps the sample ids without their messages
write_failures_to_json_ids_only(bad_lines, fs, path) ==
    (path :> File(JList([i \in 1..Len(bad_lines) |-> Str(bad_lines[i].key)]))) @@ fs

\* json.dump of the failure mapping
write_failures_to_json(bad_lines, fs, path) ==
    (path :> File(FailuresTree(bad_lines))) @@ fs

\* the condition of line 333 with >= in place of >
HighFailureRate_inclusive(num_failed, num_total_sgs) ==
    /\ num_total_sgs > 0
    /\ ~PyLess(Rat(num_failed, num_total_sgs), FAILURE_RATE_THRESHOLD)

\* the condition of line 333
HighFailureRate(num_failed, num_total_sgs) ==
    /\ num_total_sgs > 0
    /\ PyLess(FAILURE_RATE_THRESHOLD, Rat(num_failed, num_total_sgs))

\* the banner of lines 335-340 (its rule lines and emoji left out)
high_failure_message(num_failed, num_total_sgs) ==
    "ALERT: High QC Failure Rate\n*Failure Rate:* " \o ToString(num_failed)
        \o " out of " \o ToString(num_total_sgs) \o " samples ("
        \o Fixed(Rat(num_failed * 100, num_total_sgs), 2) \o "%)\n\n"

RECURSIVE Join(_, _)
Join(strs, sep) ==
    IF strs = <<>> THEN ""
    ELSE IF Len(strs) = 1 THEN strs[1]
    ELSE strs[1] \o sep \o Join(Tail(strs), sep)

\* the messages of the summary with the banner put after the title line
Messages_banner_after_title(bad_lines, num_total_sgs, cohort_id) ==
    LET num_failed == Len(bad_lines)
        title == "*[" \o cohort_id \o "]* <URL|MultiQC report>"
        banner == IF HighFailureRate(num_failed, num_total_sgs)
                  THEN <<high_failure_message(num_failed, num_total_sgs)>> ELSE <<>>
    IN  <<title \o ". " \o ToString(num_failed) \o " samples are flagged:">>
            \o banner
            \o [i \in 1..num_failed |->
                    "! " \o bad_lines[i].key \o ": " \o Join(bad_lines[i].value, ", ")]

\* lines 343-354: the messages of the summary
Messages(bad_lines, num_total_sgs, cohort_id) ==
    LET num_failed == Len(bad_lines)
        title == "*[" \o cohort_id \o "]* <URL|MultiQC report>"
        banner == IF HighFailureRate(num_failed, num_total_sgs)
                  THEN <<high_failure_message(num_failed, num_total_sgs)>> ELSE <<>>
    IN  IF num_failed > 0
        THEN banner \o <<title \o ". " \o ToString(num_failed) \o " samples are flagged:">>
                \o [i \in 1..num_failed |->
                        "! " \o bad_lines[i].key \o ": " \o Join(bad_lines[i].value, ", ")]
        ELSE banner \o <<"OK " \o title>>

post_to_slack_text(bad_lines, checker, cohort_id) ==
    Join(Messages(bad_lines, Len(checker.cohort_sgs), cohort_id), "\n")

\* the post-checking step without the test of line 449 around the write
PostChecking_always ==
    /\ pc = "post"
    /\ files' = write_failures_to_json(bad_lines_by_sample, files, output)
    /\ pc' = IF bad_lines_by_sample # <<>> THEN "notify" ELSE "done"
    /\ UNCHANGED <<config, cohort, metamist, slack, html_url, qc_checker,
                   bad_lines_by_sample, k, threshold_map, w, last, warned, text, error>>
    /\ UNCHANGED <<run, regvars, wfvars>>

\* lines 448-450: the failure file is written when a sample failed
PostChecking ==
    /\ pc = "post"
    /\ IF bad_lines_by_sample # <<>>
       THEN /\ files' = write_failures_to_json(bad_lines_by_sample, files, output)
            /\ pc' = "notify"
       ELSE /\ pc' = "done"
            /\ UNCHANGED files
    /\ UNCHANGED <<config, cohort, metamist, slack, html_url, qc_checker,
                   bad_lines_by_sample, k, threshold_map, w, last, warned, text, error>>
    /\ UNCHANGED <<run, regvars, wfvars>>

\* truth value of a configuration option
Truthy(v) ==
    CASE v.t = "null" -> FALSE
      [] v.t = "str" -> v.s # ""
      [] OTHER -> v.n # 0

\* config_retrieve(['workflow', 'multiqc', 'send_to_slack'], default=True)
send_to_slack ==
    IF "send_to_slack" \in DOMAIN config.multiqc
    THEN Truthy(config.multiqc["send_to_slack"]) ELSE TRUE

\* line 451: post_to_slack(bad_lines_by_sample, qc_checker, html_url); the
\* local html_url is unbound when the dataset has no web url
PostToSlack ==
    /\ pc = "notify"
    /\ IF ~html_url
       THEN /\ pc' = "crashed"
            /\ error' = "UnboundLocalError"
            /\ UNCHANGED <<slack, text>>
       ELSE /\ pc' = "done"
            /\ error' = ""
            /\ text' = post_to_slack_text(bad_lines_by_sample, qc_checker, cohort.id)
            /\ slack' = IF send_to_slack THEN Append(slack, text') ELSE slack
    /\ UNCHANGED <<config, cohort, metamist, files, html_url, qc_checker,
                   bad_lines_by_sample, k, threshold_map, w, last, warned>>
    /\ UNCHANGED <<run, regvars, wfvars>>

\* the report of a later aggregation: the first group passes every check
PassingReport == ReportFile(<< <<Entry(SgId(1), (COVERAGE :> Threshold))>> >>)

\* the workflow is run again for the cohort after a check run that flagged
\* samples: RunMultiQc writes a new report to the same path and
\* check_multiqc.run starts over with the same output path
\* (stages.py, lines 46 and 68: both paths depend on the cohort id only)
Rerun ==
    /\ pc = "done"
    /\ rpc = "idle"
    /\ bad_lines_by_sample # <<>>
    /\ run < MaxRuns
    /\ run' = run + 1
    /\ files' = (multiqc_data_path :> PassingReport) @@ files
    /\ pc' = "start"
    /\ html_url' = FALSE
    /\ qc_checker' = NoChecker
    /\ bad_lines_by_sample' = <<>>
    /\ k' = 1
    /\ threshold_map' = <<>>
    /\ w' = 1
    /\ last' = NoEvaluation
    /\ warned' = {}
    /\ text' = ""
    /\ error' = ""
    /\ UNCHANGED <<config, cohort, metamist, slack>>
    /\ UNCHANGED <<regvars, wfvars>>

(***************************************************************************)
(* register_qc_metamist: build_sg_multiqc_meta_dict, update_sg_qc_metrics  *)
(***************************************************************************)
\* (output key, tool section, field of the section's rows)
metric_map ==
    << <<"freemix", "verifybamid", "FREEMIX">>,
       <<"contamination_dragen", "DRAGEN", "Estimated sample contamination">>,
       <<"mean_coverage", "DRAGEN", "Average sequenced coverage over genome">>,
       <<"median_coverage", "DRAGEN_5", "wgs median autosomal coverage over genome">>,
       <<"pct_genome_20x", "DRAGEN_5", "wgs pct of genome with coverage [20x:inf)">>,
       <<"pct_q30_bases", "DRAGEN", "Q30 bases pct">>,
       <<"pct_mapped_reads", "DRAGEN", "Mapped reads pct">>,
       <<"pct_duplicate_reads", "DRAGEN", "Number of duplicate marked reads pct">>,
       <<"mean_insert_size", "DRAGEN", "Insert length: mean">>,
       <<"std_dev_insert_size", "DRAGEN", "Insert length: standard deviation">>,
       <<"avg_gc_content", "dragen-fastqc", "avg_gc_content_percent">>,
       <<"ploidy_estimation", "DRAGEN_4", "Ploidy estimation">>,
       <<"norm_x_coverage", "DRAGEN_4", "X median / Autosomal median">>,
       <<"norm_y_coverage", "DRAGEN_4", "Y median / Autosomal median">>,
       <<"ti_tv_ratio", "DRAGEN_3", "Ti/Tv ratio">>,
       <<"het_hom_ratio", "DRAGEN_3", "Het/Hom ratio">> >>

\* obj[key] for a string key: the value, a KeyError, or a TypeError when obj
\* is not a mapping
Subscript(obj, key) ==
    IF obj.t # "dict" THEN [exc |-> "TypeError", v |-> None]
    ELSE IF ~HasKey(obj.items, key) THEN [exc |-> "KeyError", v |-> None]
    ELSE [exc |-> "", v |-> Lookup(obj.items, key)]

\* lines 114-116 without the except clause: the error of the lookup escapes
metric_value_uncaught(multiqc_json, tool_key, cpg_id, metric_key) ==
    LET tool == Subscript(multiqc_json, tool_key)
        sample == Subscript(tool.v, cpg_id)
        value == Subscript(sample.v, metric_key)
    IN  IF tool.exc # "" THEN tool
        ELSE IF sample.exc # "" THEN sample
        ELSE value

\* lines 114-119: multiqc_json[tool_key][cpg_id][metric_key], None when a
\* KeyError or TypeError is raised on the way
metric_value(multiqc_json, tool_key, cpg_id, metric_key) ==
    LET tool == Subscript(multiqc_json, tool_key)
        sample == Subscript(tool.v, cpg_id)
        value == Subscript(sample.v, metric_key)
    IN  IF tool.exc # "" THEN [exc |-> "", v |-> None]
        ELSE IF sample.exc # "" THEN [exc |-> "", v |-> None]
        ELSE IF value.exc # "" THEN [exc |-> "", v |-> None]
        ELSE value

\* multiqc_json.get(name, {})
GetSection(multiqc_json, name) ==
    IF HasKey(multiqc_json.items, name) THEN Lookup(multiqc_json.items, name)
    ELSE JDict(<<>>)

\* line 106: the sample ids are the keys of the 'DRAGEN' section
reference_section(multiqc_json) == GetSection(multiqc_json, "DRAGEN")

\* run_multiqc.py, lines 116-119: 'verifybamid', then 'DRAGEN' as fallback
run_multiqc_reference_section(multiqc_json) ==
    IF GetSection(multiqc_json, "verifybamid").t = "dict"
            /\ GetSection(multiqc_json, "verifybamid").items # <<>>
    THEN GetSection(multiqc_json, "verifybamid")
    ELSE GetSection(multiqc_json, "DRAGEN")

\* the row of one sample: one entry per triple of metric_map
sample_metrics(multiqc_json, cpg_id) ==
    JDict([m \in 1..Len(metric_map) |->
            Entry(metric_map[m][1],
                  metric_value(multiqc_json, metric_map[m][2], cpg_id, metric_map[m][3]).v)])

\* the exceptions the lookups of lines 111-119 let escape
escaped(multiqc_json, sample_ids) ==
    {metric_value(multiqc_json, metric_map[m][2], sample_ids[i].key, metric_map[m][3]).exc :
        i \in 1..Len(sample_ids), m \in 1..Len(metric_map)} \ {""}

\* what build_sg_multiqc_meta_dict returns or raises, and whether it logged
\* 'Could not find any sample IDs'
build_sg_multiqc_meta_dict(multiqc_json) ==
    IF multiqc_json.t # "dict" \/ reference_section(multiqc_json).t # "dict"
    THEN [exc |-> "AttributeError", no_sample_ids |-> FALSE, data |-> JDict(<<>>)]
    ELSE LET sample_ids == reference_section(multiqc_json).items
             raised == escaped(multiqc_json, sample_ids)
         IN  IF raised # {}
             THEN [exc |-> CHOOSE e \in raised : TRUE, no_sample_ids |-> sample_ids = <<>>,
                   data |-> JDict(<<>>)]
             ELSE [exc |-> "", no_sample_ids |-> sample_ids = <<>>,
                   data |-> JDict([i \in 1..Len(sample_ids) |->
                                    Entry(sample_ids[i].key,
                                          sample_metrics(multiqc_json, sample_ids[i].key))])]

\* config_retrieve(['workflow', 'multiqc']).get('deactivate_sgs', False)
deactivate_sgs == Truthy(Get(config.multiqc, "deactivate_sgs"))

RegisterCrash(e) ==
    /\ rpc' = "crashed"
    /\ rerror' = e
    /\ UNCHANGED <<failed_samples, meta_to_update, logged, g, mutations>>

\* run, lines 174-181, and update_sg_qc_metrics, lines 131-134: load the
\* report and the failure report, extract the metrics.  The job runs once the
\* check job has succeeded.
RegisterStart ==
    /\ pc = "done"
    /\ rpc = "idle"
    /\ LET multiqc_data == load_json(files, multiqc_data_path,
                                     "report_general_stats_data", FALSE)
           failed == load_json(files, failed_samples_path, "", TRUE)
           built == build_sg_multiqc_meta_dict(multiqc_data.data)
       IN  IF multiqc_data.exc # "" THEN RegisterCrash(multiqc_data.exc)
           ELSE IF failed.exc # "" THEN RegisterCrash(failed.exc)
           ELSE IF built.exc # "" THEN RegisterCrash(built.exc)
           ELSE /\ failed_samples' = failed.data
                /\ meta_to_update' = built.data
                /\ logged' = IF built.no_sample_ids
                             THEN Append(logged, "Error: Could not find any sample IDs in the data.")
                             ELSE logged
                /\ g' = 1
                /\ rpc' = IF cohort.sgs = <<>> THEN "write" ELSE "update"
                /\ rerror' = ""
                /\ UNCHANGED mutations
    /\ UNCHANGED <<config, cohort, metamist, files>>
    /\ UNCHANGED <<checkvars, wfvars>>

\* a registration that records no failed check for any group
qc_checks_failed_dropped(failed, sg_id) == JList(<<>>)

\* failed_samples.get(sg.id, []) if sg.id in failed_samples else []
qc_checks_failed(failed, sg_id) ==
    IF HasKey(failed.items, sg_id) THEN Lookup(failed.items, sg_id) ELSE JList(<<>>)

\* update_sg_qc_metrics, lines 135-150: one pass of the loop over the cohort.
\* sg_meta['qc'] is the very dict held in meta_to_update when the group has
\* one, so the assignment of line 138 shows in meta_to_update too.
UpdateSg ==
    /\ rpc = "update"
    /\ LET sg_id == cohort.sgs[g]
           extracted == HasKey(meta_to_update.items, sg_id)
           qc == IF extracted THEN Lookup(meta_to_update.items, sg_id) ELSE JDict(<<>>)
           updated == JDict(SetItem(qc.items, "qc_checks_failed",
                                    qc_checks_failed(failed_samples, sg_id)))
       IN  /\ mutations' = Append(mutations,
                                  [kind |-> "updateSequencingGroup",
                                   project |-> cohort.dataset \o "-test",
                                   id |-> sg_id,
                                   meta |-> JDict(<<Entry("qc", updated)>>)])
           /\ meta_to_update' = IF extracted
                                THEN JDict(SetItem(meta_to_update.items, sg_id, updated))
                                ELSE meta_to_update
    /\ g' = g + 1
    /\ rpc' = IF g < Len(cohort.sgs) THEN "update" ELSE "write"
    /\ UNCHANGED <<failed_samples, logged, rerror>>
    /\ UNCHANGED <<config, cohort, metamist, files>>
    /\ UNCHANGED <<checkvars, wfvars>>

\* a failed update that is only logged: the loop goes on to the next group
UpdateFails_swallowed ==
    /\ rpc = "update"
    /\ g' = g + 1
    /\ rpc' = IF g < Len(cohort.sgs) THEN "update" ELSE "write"
    /\ logged' = Append(logged, "update failed")
    /\ UNCHANGED <<failed_samples, meta_to_update, mutations, rerror>>
    /\ UNCHANGED <<config, cohort, metamist, files>>
    /\ UNCHANGED <<checkvars, wfvars>>

\* the query of lines 140-149 raises: the metadata store refuses the update
\* or cannot be reached
UpdateFails ==
    /\ rpc = "update"
    /\ RegisterCrash("TransportError")
    /\ UNCHANGED <<config, cohort, metamist, files>>
    /\ UNCHANGED <<checkvars, wfvars>>

\* output.open('w') of line 153 raises: the bucket cannot be written
WriteFails ==
    /\ rpc = "write"
    /\ RegisterCrash("OSError")
    /\ UNCHANGED <<config, cohort, metamist, files>>
    /\ UNCHANGED <<checkvars, wfvars>>

\* update_sg_qc_metrics, lines 152-154: json.dump(meta_to_update, f)
WriteRegistered ==
    /\ rpc = "write"
    /\ files' = (registered_path :> File(meta_to_update)) @@ files
    /\ rpc' = "deactivate"
    /\ UNCHANGED <<failed_samples, meta_to_update, logged, g, mutations, rerror>>
    /\ UNCHANGED <<config, cohort, metamist>>
    /\ UNCHANGED <<checkvars, wfvars>>

\* the step of lines 156-165 that archives whatever the option says
Deactivate_always ==
    /\ rpc = "deactivate"
    /\ mutations' = Append(mutations,
                           [kind |-> "archiveSequencingGroups",
                            ids |-> [i \in 1..Len(failed_samples.items) |->
                                        failed_samples.items[i].key]])
    /\ rpc' = "registered"
    /\ UNCHANGED <<failed_samples, meta_to_update, logged, g, rerror>>
    /\ UNCHANGED <<config, cohort, metamist, files>>
    /\ UNCHANGED <<checkvars, wfvars>>

\* update_sg_qc_metrics, lines 156-165: archive the keys of the failure
\* report when deactivate_sgs is set
Deactivate ==
    /\ rpc = "deactivate"
    /\ IF deactivate_sgs
       THEN mutations' = Append(mutations,
                                [kind |-> "archiveSequencingGroups",
                                 ids |-> [i \in 1..Len(failed_samples.items) |->
                                            failed_samples.items[i].key]])
       ELSE UNCHANGED mutations
    /\ rpc' = "registered"
    /\ UNCHANGED <<failed_samples, meta_to_update, logged, g, rerror>>
    /\ UNCHANGED <<config, cohort, metamist, files>>
    /\ UNCHANGED <<checkvars, wfvars>>

Next ==
    \/ Start \/ BuildThresholds \/ IterateSections \/ Evaluate \/ PostChecking
    \/ PostToSlack \/ Rerun
    \/ RegisterStart \/ UpdateSg \/ UpdateFails \/ WriteRegistered \/ WriteFails
    \/ Deactivate

Spec == Init /\ [][Next]_vars

(***************************************************************************)
(* The driver and the batch: stages.py, run_workflow.py, multiqc()         *)
(***************************************************************************)
\* the @stage decorators of stages.py, lines 42, 65 and 88
required_stages(stage) ==
    CASE stage = "RunMultiQc" -> {}
      [] stage = "CheckMultiQc" -> {"RunMultiQc"}
      [] stage = "RegisterQcMetricsToMetamist" -> {"RunMultiQc", "CheckMultiQc"}

\* expected_outputs of the stages (lines 44-48, 67-68, 113-114): key -> path
expected_outputs(stage) ==
    CASE stage = "RunMultiQc" ->
            ("multiqc_json" :> multiqc_data_path) @@ ("multiqc_report" :> multiqc_html_path)
      [] stage = "CheckMultiQc" -> ("failed_samples" :> output)
      [] stage = "RegisterQcMetricsToMetamist" -> (".registered" :> registered_path)

Paths(stage) == {expected_outputs(stage)[key] : key \in DOMAIN expected_outputs(stage)}

\* a Dragen metrics file of the first sequencing group
DragenCsv == "dragen_metrics/CPG1/metrics.csv"

\* the parameters of the functions handed to PythonJob.call; none of them
\* has a default value
Parameters(fn) ==
    CASE fn = "check_multiqc.run" ->
            <<"cohort", "multiqc_data_path", "multiqc_html_path", "output">>
      [] fn = "register_qc_metamist.run" ->
            <<"cohort", "multiqc_data_path", "failed_samples_path", "output">>
      [] fn = "update_sg_qc_metrics" -> <<"failed_meta", "meta_to_update", "cohort">>

\* fn(*args, **kwargs) can be called: the positional arguments take the
\* first parameters, every keyword names another parameter, and no
\* parameter is left without a value
Binds(call) ==
    LET params == Parameters(call.fn)
        names == {params[i] : i \in 1..Len(params)}
        positional == {params[i] : i \in 1..call.args}
    IN  /\ call.args <= Len(params)
        /\ call.kwargs \subseteq names \ positional
        /\ names \subseteq positional \cup call.kwargs

\* run_multiqc.py, lines 474-475: the keys run_multiqc reads from outputs,
\* for the HTML report and for the JSON data
run_multiqc_reads == <<"multiqc_report", "multiqc_data">>

\* run_multiqc(cohort, outputs), lines 394-477, for the number of QC paths
\* it collects: no job, an exception, or the job and the paths it writes
run_multiqc(all_qc_paths, outputs) ==
    IF all_qc_paths = 0 THEN [exc |-> "", job |-> FALSE, writes |-> {}]
    ELSE IF \E i \in 1..Len(run_multiqc_reads) : run_multiqc_reads[i] \notin DOMAIN outputs
    THEN [exc |-> "KeyError", job |-> FALSE, writes |-> {}]
    ELSE [exc |-> "", job |-> TRUE,
          writes |-> {outputs[run_multiqc_reads[i]] : i \in 1..Len(run_multiqc_reads)}]

\* lines 405-427: one Somalier path per sequencing group, whether the file
\* exists or not, and the Dragen CSV files found in the bucket
all_qc_paths == Len(cohort.sgs) + Cardinality(bucket \cap {DragenCsv})

\* inputs.as_path_by_target(stage=..., key=...)
as_path_by_target(stage, key) ==
    IF key \in DOMAIN expected_outputs(stage)
    THEN [exc |-> "", path |-> expected_outputs(stage)[key]]
    ELSE [exc |-> "KeyError", path |-> ""]

\* what the driver does after a stage
After(stage) ==
    IF stage = "RunMultiQc" THEN "CheckMultiQc"
    ELSE IF stage = "CheckMultiQc" THEN "RegisterQcMetricsToMetamist"
    ELSE "submitted"

\* the jobs a stage's jobs wait for: those queued for its required stages
StageDeps(stage) == {r \in required_stages(stage) : jobs[r].status = "queued"}

\* a stage whose expected outputs all exist is not queued again
Reuse(stage) ==
    /\ jobs' = [jobs EXCEPT ![stage].status = "reused"]
    /\ driver' = After(stage)
    /\ UNCHANGED <<derror, calls>>

Abort(e) ==
    /\ driver' = "aborted"
    /\ derror' = e

\* job.call(fn, **kwargs) and make_outputs for a stage with one PythonJob
QueuePython(stage, call) ==
    /\ calls' = Append(calls, call)
    /\ IF eager_bind /\ ~Binds(call)
       THEN /\ Abort("BatchException")
            /\ UNCHANGED jobs
       ELSE /\ jobs' = [jobs EXCEPT ![stage] =
                            [status |-> "queued", depends_on |-> StageDeps(stage),
                             call |-> call, writes |-> Paths(stage)]]
            /\ driver' = After(stage)
            /\ UNCHANGED derror

\* RunMultiQc.queue_jobs, stages.py lines 50-62
QueueRunMultiQc ==
    /\ entry_point = "stages"
    /\ driver = "RunMultiQc"
    /\ IF Paths("RunMultiQc") \subseteq bucket THEN Reuse("RunMultiQc")
       ELSE LET multiqc_job == run_multiqc(all_qc_paths, expected_outputs("RunMultiQc"))
            IN  IF multiqc_job.exc # ""
                THEN /\ Abort(multiqc_job.exc)
                     /\ UNCHANGED <<jobs, calls>>
                ELSE /\ jobs' = [jobs EXCEPT !["RunMultiQc"] =
                                    IF multiqc_job.job
                                    THEN [status |-> "queued", depends_on |-> {},
                                          call |-> NoCall, writes |-> multiqc_job.writes]
                                    ELSE [NoJob EXCEPT !.status = "skipped"]]
                     /\ driver' = After("RunMultiQc")
                     /\ UNCHANGED <<derror, calls>>
    /\ UNCHANGED <<entry_point, eager_bind, bucket>>
    /\ UNCHANGED <<config, cohort, metamist, files>>
    /\ UNCHANGED <<checkvars, regvars>>

\* CheckMultiQc.queue_jobs, stages.py lines 70-85
QueueCheckMultiQc ==
    /\ entry_point = "stages"
    /\ driver = "CheckMultiQc"
    /\ IF Paths("CheckMultiQc") \subseteq bucket THEN Reuse("CheckMultiQc")
       ELSE QueuePython("CheckMultiQc",
                        [fn |-> "check_multiqc.run", args |-> 0,
                         kwargs |-> {"cohort", "inputs", "outputs"}])
    /\ UNCHANGED <<entry_point, eager_bind, bucket>>
    /\ UNCHANGED <<config, cohort, metamist, files>>
    /\ UNCHANGED <<checkvars, regvars>>

\* RegisterQcMetricsToMetamist.queue_jobs, stages.py lines 116-135
QueueRegisterQcMetricsToMetamist ==
    /\ entry_point = "stages"
    /\ driver = "RegisterQcMetricsToMetamist"
    /\ IF Paths("RegisterQcMetricsToMetamist") \subseteq bucket
       THEN Reuse("RegisterQcMetricsToMetamist")
       ELSE LET data == as_path_by_target("RunMultiQc", "multiqc_json")
                failed == as_path_by_target("CheckMultiQc", "failed_samples")
            IN  IF data.exc # "" \/ failed.exc # ""
                THEN /\ Abort("KeyError")
                     /\ UNCHANGED <<jobs, calls>>
                ELSE QueuePython("RegisterQcMetricsToMetamist",
                                 [fn |-> "register_qc_metamist.run", args |-> 0,
                                  kwargs |-> {"cohort", "multiqc_data_path",
                                              "failed_samples_path"}])
    /\ UNCHANGED <<entry_point, eager_bind, bucket>>
    /\ UNCHANGED <<config, cohort, metamist, files>>
    /\ UNCHANGED <<checkvars, regvars>>

\* depends_on with the registration job waiting for the aggregation only
depends_on_aggregation_only(job, check_created) ==
    CASE job = "mqc_j" -> {}
      [] job = "check_j" -> {"mqc_j"}
      [] job = "register_qc_j" -> {"mqc_j"}

\* the depends_on calls of multiqc(), run_multiqc.py lines 293 and 304-307
depends_on(job, check_created) ==
    CASE job = "mqc_j" -> {}
      [] job = "check_j" -> {"mqc_j"}
      [] job = "register_qc_j" -> IF check_created THEN {"mqc_j", "check_j"} ELSE {"mqc_j"}

\* multiqc(), run_multiqc.py lines 220-310: the MultiQC job, the check job
\* when qc_thresholds is configured, and the registration job
QueueMultiqc ==
    /\ entry_point = "multiqc"
    /\ driver = "multiqc"
    /\ LET check_created == config.qc_thresholds # <<>>
           register == [fn |-> "update_sg_qc_metrics", args |-> 3, kwargs |-> {}]
       IN  /\ jobs' = [j \in JobNames |->
                        CASE j = "mqc_j" ->
                                [status |-> "queued", depends_on |-> depends_on(j, check_created),
                                 call |-> NoCall,
                                 writes |-> {multiqc_data_path, multiqc_html_path}]
                          [] j = "check_j" /\ check_created ->
                                [status |-> "queued", depends_on |-> depends_on(j, check_created),
                                 call |-> NoCall, writes |-> {output}]
                          [] j = "register_qc_j" ->
                                [status |-> "queued", depends_on |-> depends_on(j, check_created),
                                 call |-> register, writes |-> {}]
                          [] OTHER -> NoJob]
           /\ calls' = Append(calls, register)
    /\ driver' = "submitted"
    /\ UNCHANGED <<entry_point, eager_bind, bucket, derror>>
    /\ UNCHANGED <<config, cohort, metamist, files>>
    /\ UNCHANGED <<checkvars, regvars>>

\* the batch starts a queued job once every job it depends on has succeeded
JobStart ==
    /\ driver = "submitted"
    /\ \E j \in JobNames :
        /\ jobs[j].status = "queued"
        /\ \A d \in jobs[j].depends_on : jobs[d].status = "done"
        /\ jobs' = [jobs EXCEPT ![j].status = "running"]
    /\ UNCHANGED <<entry_point, eager_bind, bucket, driver, derror, calls>>
    /\ UNCHANGED <<config, cohort, metamist, files>>
    /\ UNCHANGED <<checkvars, regvars>>

\* a running job ends well: its function could be called, its outputs exist
JobSucceeds ==
    /\ \E j \in JobNames :
        /\ jobs[j].status = "running"
        /\ IF jobs[j].call = NoCall THEN TRUE ELSE Binds(jobs[j].call)
        /\ jobs' = [jobs EXCEPT ![j].status = "done"]
        /\ bucket' = bucket \cup jobs[j].writes
    /\ UNCHANGED <<entry_point, eager_bind, driver, derror, calls>>
    /\ UNCHANGED <<config, cohort, metamist, files>>
    /\ UNCHANGED <<checkvars, regvars>>

\* a running job fails: its function cannot be called with the arguments
\* given (TypeError), or it raises, or the command exits with an error
JobFails ==
    /\ \E j \in JobNames :
        /\ jobs[j].status = "running"
        /\ jobs' = [jobs EXCEPT ![j].status = "failed"]
    /\ UNCHANGED <<entry_point, eager_bind, bucket, driver, derror, calls>>
    /\ UNCHANGED <<config, cohort, metamist, files>>
    /\ UNCHANGED <<checkvars, regvars>>

\* the workflow is started through run_workflow with the three stages, or
\* the jobs are built by multiqc(); outputs of earlier runs may exist
WorkflowInit ==
    /\ \E n \in 1..MaxGroups, thresholds \in BOOLEAN :
        /\ config = [ConfigOf(Tables(<<Item("min", "mean_coverage", Threshold)>>),
                              "genome", <<>>)
                        EXCEPT !.qc_thresholds = IF thresholds THEN @ ELSE <<>>]
        /\ cohort = Cohort(n, TRUE)
        /\ metamist = Response(n, DefaultParticipant)
    /\ files = <<>>
    /\ slack = <<>>
    /\ pc = "start"
    /\ html_url = FALSE
    /\ qc_checker = NoChecker
    /\ bad_lines_by_sample = <<>>
    /\ k = 1
    /\ threshold_map = <<>>
    /\ w = 1
    /\ last = NoEvaluation
    /\ warned = {}
    /\ text = ""
    /\ error = ""
    /\ run = 1
    /\ rpc = "idle"
    /\ failed_samples = JDict(<<>>)
    /\ meta_to_update = JDict(<<>>)
    /\ logged = <<>>
    /\ g = 1
    /\ mutations = <<>>
    /\ rerror = ""
    /\ entry_point \in {"stages", "multiqc"}
    /\ eager_bind \in BOOLEAN
    /\ bucket \in SUBSET (UNION {Paths(Stages[i]) : i \in 1..Len(Stages)} \cup {DragenCsv})
    /\ driver = IF entry_point = "stages" THEN Stages[1] ELSE "multiqc"
    /\ derror = ""
    /\ calls = <<>>
    /\ jobs = NoJobs

WorkflowNext ==
    \/ QueueRunMultiQc \/ QueueCheckMultiQc \/ QueueRegisterQcMetricsToMetamist
    \/ QueueMultiqc
    \/ JobStart \/ JobSucceeds \/ JobFails

Workflow == WorkflowInit /\ [][WorkflowNext]_vars

(***************************************************************************)
(* Properties                                                              *)
(***************************************************************************)
\* the iteration Evaluate is about to run, and the value it resolves
Current == Work(qc_checker.multiqc_data, threshold_map)[w]

CurrentValue ==
    get_metric_value(qc_checker.sex_mapping, Current.metric_config,
                     Current.val_by_metric, Current.sg_id)

CurrentThreshold == Current.metric_config["threshold"]

CurrentCheckType == check_definitions[k].check_type

\* the iteration appended exactly one line to the current sample's list
AppendedOne ==
    /\ HasKey(bad_lines_by_sample', Current.sg_id)
    /\ bad_lines_by_sample' =
         AppendLine(bad_lines_by_sample, Current.sg_id,
                    Lookup(bad_lines_by_sample', Current.sg_id)[
                        Len(Lookup(bad_lines_by_sample', Current.sg_id))])

\* C1: an iteration whose value resolves to None (field absent or null, or
\* a calculator returning None) leaves the failure mapping as it was, for
\* every check type.
C1_NullNeverFails ==
    [][(pc = "check" /\ CurrentValue.exc = "" /\ CurrentValue.val.t = "null")
            => /\ bad_lines_by_sample' = bad_lines_by_sample
               /\ last'.outcome = "skipped"]_vars

\* an equality check skipped a sample whose row lacks the metric's field
C1_Witness ==
    /\ last.outcome = "skipped"
    /\ last.check_type = "equality"
    /\ last.metric = "mean_coverage"
    /\ COVERAGE \notin DOMAIN last.val_by_metric

\* C2: a 'min' check on a number appends a failure line exactly when the
\* value is strictly below the threshold; equal and above pass.
C2_MinInclusive ==
    [][(pc = "check" /\ CurrentCheckType = "min" /\ CurrentValue.exc = ""
            /\ IsNumber(CurrentValue.val))
        => LET v == CurrentValue.val
               t == CurrentThreshold
           IN  IF v.n * t.d < t.n * v.d
               THEN AppendedOne /\ last'.outcome = "failed"
               ELSE bad_lines_by_sample' = bad_lines_by_sample
                        /\ last'.outcome = "passed"]_vars

\* a 'min' check passed a value equal to its threshold
C2_Witness ==
    /\ last.check_type = "min"
    /\ last.outcome = "passed"
    /\ last.val = last.threshold
    /\ last.val.t = "num"

\* C3: a 'max' check on a number appends a failure line exactly when the
\* value is strictly above the threshold; equal passes.
C3_MaxInclusive ==
    [][(pc = "check" /\ CurrentCheckType = "max" /\ CurrentValue.exc = ""
            /\ IsNumber(CurrentValue.val))
        => LET v == CurrentValue.val
               t == CurrentThreshold
           IN  IF v.n * t.d > t.n * v.d
               THEN AppendedOne /\ last'.outcome = "failed"
               ELSE bad_lines_by_sample' = bad_lines_by_sample
                        /\ last'.outcome = "passed"]_vars

\* a 'max' check passed a value equal to its threshold
C3_Witness ==
    /\ last.check_type = "max"
    /\ last.outcome = "passed"
    /\ last.val = last.threshold
    /\ last.val.t = "num"

\* the sex the registry holds for the current sample, None if it holds none
CurrentSex ==
    IF Current.sg_id \in DOMAIN qc_checker.sex_mapping
    THEN qc_checker.sex_mapping[Current.sg_id] ELSE None

SexIsOneOrTwo(v) == v.t = "num" /\ v.d = 1 /\ v.n \in {1, 2}

Karyotype(v) == IF v.n = 1 THEN "XY" ELSE "XX"

PloidyIteration == pc = "check" /\ Current.metric = "ploidy_estimation"

\* C4: with a sex code of 1 or 2 and a raw call other than "Unknown", the
\* ploidy value is True exactly when the raw call is the string "XY" (code 1)
\* or "XX" (code 2) and False for every other call; a raw call of "Unknown",
\* or a row without 'Ploidy estimation', gives None whatever the sex.
C4_PloidyStrictEquality ==
    [][PloidyIteration
        => LET row == Current.val_by_metric
               absent == "Ploidy estimation" \notin DOMAIN row
               unknown == absent \/ row["Ploidy estimation"] = Str("Unknown")
           IN  /\ unknown => last'.val = None /\ last'.outcome = "skipped"
               /\ (~unknown /\ SexIsOneOrTwo(CurrentSex))
                    => /\ last'.val.t = "bool"
                       /\ last'.val.n = 1
                            <=> row["Ploidy estimation"] = Str(Karyotype(CurrentSex))
                       /\ last'.expected = Str(Karyotype(CurrentSex))]_vars

\* the aneuploidy call "XXY" of a sample of sex code 1 was a mismatch
C4_Witness ==
    /\ last.metric = "ploidy_estimation"
    /\ last.raw = Str("XXY")
    /\ last.sg_id \in DOMAIN qc_checker.sex_mapping
    /\ qc_checker.sex_mapping[last.sg_id] = Num(1)
    /\ last.val = Bool(FALSE)
    /\ last.outcome = "failed"

\* C5: for a sample with no entry in the sex mapping, or with a sex code
\* other than 1 and 2, the ploidy calculator returns None for every raw
\* call, its expected-value string names the reason or the code and never
\* a karyotype, and no failure line is appended.
C5_UnusableSexNeverFails ==
    [][(PloidyIteration /\ ~SexIsOneOrTwo(CurrentSex))
        => /\ last'.val = None
           /\ last'.outcome = "skipped"
           /\ last'.expected.t = "str"
           /\ last'.expected.s \notin {"XX", "XY", ""}
           /\ CurrentSex.t = "null"
                => last'.expected = Str("Unknown (no sex for " \o Current.sg_id \o ")")
           /\ bad_lines_by_sample' = bad_lines_by_sample
           /\ pc' # "crashed"]_vars

\* a definite call "XX" met an ambiguous sex code and was skipped
C5_Witness ==
    /\ last.metric = "ploidy_estimation"
    /\ last.raw = Str("XX")
    /\ last.sg_id \in DOMAIN qc_checker.sex_mapping
    /\ qc_checker.sex_mapping[last.sg_id] = Num(0)
    /\ last.expected = Str("Ambiguous Sex Code 0")
    /\ last.outcome = "skipped"
    /\ bad_lines_by_sample = <<>>

C7_PerMetricProblemsAbsorbed ==
    /\ last.outcome # "raised"
    /\ pc = "crashed" => error \notin {"TypeError", "KeyError", "ZeroDivisionError"}

\* the sub-table the configuration holds for the run's sequencing type
Configured(check_type) ==
    LET qt == config.qc_thresholds
        st == config.sequencing_type
    IN  IF st \in DOMAIN qt /\ check_type \in DOMAIN qt[st]
        THEN qt[st][check_type] ELSE <<>>

\* C8: the table build_qc_thresholds returns has the keys of the configured
\* sub-table; an entry of a registry metric is the registry definition plus
\* the threshold, an entry of any other metric has the metric's name as
\* multiqc_report_name and display_name and a warning is logged; nothing is
\* raised; an unconfigured sequencing type or check type gives the empty table.
C8_ThresholdTableComplete ==
    [][pc = "build"
        => LET ct == check_definitions[k].check_type
               table == Configured(ct)
           IN  /\ pc' # "crashed"
               /\ Len(threshold_map') = Len(table)
               /\ Keys(threshold_map') = Keys(table)
               /\ \A i \in 1..Len(threshold_map') :
                    LET m == threshold_map'[i].key
                        e == threshold_map'[i].value
                    IN  /\ HasKey(table, m)
                        /\ e["threshold"] = Lookup(table, m)
                        /\ IF m \in DOMAIN QC_MAPPING
                           THEN /\ DOMAIN e = DOMAIN QC_MAPPING[m] \cup {"threshold"}
                                /\ \A f \in DOMAIN QC_MAPPING[m] : e[f] = QC_MAPPING[m][f]
                           ELSE /\ DOMAIN e = {"threshold", "multiqc_report_name",
                                               "display_name"}
                                /\ e["multiqc_report_name"] = m
                                /\ e["display_name"] = m
                                /\ <<ct, m>> \in warned'
               /\ (config.sequencing_type \notin DOMAIN config.qc_thresholds
                     \/ ct \notin DOMAIN config.qc_thresholds[config.sequencing_type])
                    => threshold_map' = <<>>]_vars

\* a table of a registry metric and an unknown one was built, with a warning
C8_Witness ==
    /\ pc = "check"
    /\ Keys(threshold_map) = {"mean_coverage", "unknown_metric"}
    /\ Lookup(threshold_map, "unknown_metric")["display_name"] = "unknown_metric"
    /\ Lookup(threshold_map, "mean_coverage")["display_name"] = "Mean Coverage"
    /\ <<"min", "unknown_metric">> \in warned

SummaryHasBanner == SubSeq(text, 1, 5) = "ALERT"

\* C9: the summary post_to_slack builds starts with the high-failure-rate
\* banner exactly when the cohort has at least one sequencing group and
\* failed / total is strictly above 5%.
C9_BannerIffAboveThreshold ==
    (pc = "done" /\ text # "")
        => LET num_failed == Len(bad_lines_by_sample)
               num_total_sgs == Len(qc_checker.cohort_sgs)
           IN  SummaryHasBanner <=> (num_total_sgs > 0 /\ 20 * num_failed > num_total_sgs)

\* 1 failed sample of 20 (exactly 5%) gave a summary without banner
C9_Witness ==
    /\ pc = "done"
    /\ text # ""
    /\ Len(bad_lines_by_sample) = 1
    /\ Len(qc_checker.cohort_sgs) = 20
    /\ ~SummaryHasBanner

\* the failure file of the run, <<>> when there is none
FailureFile == IF output \in DOMAIN files THEN <<files[output]>> ELSE <<>>

\* C10: with an empty failure mapping the post-checking step writes no file
\* and sends nothing; with a non-empty one it writes the whole mapping to the
\* output path; a file is written or a summary sent only when a sample failed.
C10_WriteAndNotifyOnlyOnFailure ==
    [][/\ pc = "post"
          => IF bad_lines_by_sample = <<>>
             THEN files' = files /\ slack' = slack /\ text' = text /\ pc' = "done"
             ELSE /\ output \in DOMAIN files'
                  /\ files'[output] = File(FailuresTree(bad_lines_by_sample))
                  /\ \A path \in DOMAIN files' \ {output} :
                        path \in DOMAIN files /\ files'[path] = files[path]
       /\ (FailureFile' # FailureFile \/ slack' # slack \/ text' # text)
          => bad_lines_by_sample # <<>>]_vars

\* every evaluated check passed: the run ended with no file and no message
C10_Witness ==
    /\ pc = "done"
    /\ last.outcome = "passed"
    /\ bad_lines_by_sample = <<>>
    /\ output \notin DOMAIN files
    /\ slack = <<>>

\* the failure file holds what the check run of this execution wrote
Written ==
    /\ bad_lines_by_sample # <<>>
    /\ pc \in {"notify", "done"} \/ (pc = "crashed" /\ error = "UnboundLocalError")

\* C11: once the check run has written a non-empty failure mapping, load_json
\* of the output path (with or without allow_missing) raises nothing and
\* returns a mapping with the same sample ids, each with the same messages in
\* the same order.
C11_FailureReportRoundTrip ==
    Written
        => \A allow_missing \in BOOLEAN :
            LET loaded == load_json(files, output, "", allow_missing)
            IN  /\ loaded.exc = ""
                /\ loaded.data.t = "dict"
                /\ Keys(loaded.data.items) = Keys(bad_lines_by_sample)
                /\ Len(loaded.data.items) = Len(bad_lines_by_sample)
                /\ \A sg_id \in Keys(bad_lines_by_sample) :
                        LET messages == Lookup(bad_lines_by_sample, sg_id)
                        IN  Lookup(loaded.data.items, sg_id)
                                = JList([j \in 1..Len(messages) |-> Str(messages[j])])

\* a mapping with two different messages for one sample was written and
\* read back with both messages in their order
C11_Witness ==
    /\ pc = "done"
    /\ \E i \in 1..Len(bad_lines_by_sample) :
            /\ Len(bad_lines_by_sample[i].value) = 2
            /\ bad_lines_by_sample[i].value[1] # bad_lines_by_sample[i].value[2]
    /\ FailuresOf(load_json(files, output, "", FALSE).data) = bad_lines_by_sample

\* the general-stats table both runs load from the aggregated report
Report == load_json(files, multiqc_data_path, "report_general_stats_data", FALSE).data

\* the value the report holds for a triple, None when the tool section, the
\* sample in it, or the field of the sample's row is missing
Reported(report, tool_key, cpg_id, metric_key) ==
    IF ~HasKey(report.items, tool_key) THEN None
    ELSE LET section == Lookup(report.items, tool_key)
         IN  IF ~HasKey(section.items, cpg_id) THEN None
             ELSE LET row == Lookup(section.items, cpg_id)
                  IN  IF ~HasKey(row.items, metric_key) THEN None
                      ELSE Lookup(row.items, metric_key)

\* the sections of the report are mappings of samples to rows
TableOfRows(report) ==
    /\ report.t = "dict"
    /\ \A i \in 1..Len(report.items) :
        /\ report.items[i].value.t = "dict"
        /\ \A j \in 1..Len(report.items[i].value.items) :
                report.items[i].value.items[j].value.t = "dict"

\* C12: when the registration run extracts the metrics of a report whose
\* sections map samples to rows, nothing is raised, and the row of every
\* sample id has exactly the sixteen output keys of the triple list, in its
\* order, each holding the report's value for its (tool, sample, field) and
\* null when the tool section, the sample in it, or the field is missing.
C12_ExtractionTotal ==
    [][(pc = "done" /\ rpc = "idle" /\ Report.t = "dict" /\ TableOfRows(Report)
            /\ load_json(files, failed_samples_path, "", TRUE).exc = "")
        => /\ rpc' # "crashed"
           /\ \A i \in 1..Len(meta_to_update'.items) :
                LET cpg_id == meta_to_update'.items[i].key
                    row == meta_to_update'.items[i].value
                IN  /\ row.t = "dict"
                    /\ Len(row.items) = Len(metric_map)
                    /\ \A m \in 1..Len(metric_map) :
                        /\ row.items[m].key = metric_map[m][1]
                        /\ row.items[m].value
                                = Reported(Report, metric_map[m][2], cpg_id,
                                           metric_map[m][3])]_vars

\* a sample with coverage in 'DRAGEN', absent from 'DRAGEN_4', in a report
\* without 'verifybamid': its row has the coverage and nulls for the rest
C12_Witness ==
    /\ rpc = "update"
    /\ g = 1
    /\ ~HasKey(Report.items, "verifybamid")
    /\ HasKey(Report.items, "DRAGEN_4")
    /\ ~HasKey(Lookup(Report.items, "DRAGEN_4").items, SgId(1))
    /\ HasKey(meta_to_update.items, SgId(1))
    /\ LET row == Lookup(meta_to_update.items, SgId(1)).items
       IN  /\ Lookup(row, "mean_coverage") = Num(MaxVal)
           /\ Lookup(row, "freemix") = None
           /\ Lookup(row, "ploidy_estimation") = None
           /\ Lookup(row, "contamination_dragen") = None

\* the registration run has extracted the metrics and gone on
Extracted == rpc \in {"update", "write", "deactivate", "registered"}

\* the tool sections of the report that hold at least one sample id
NonEmptySections(report) ==
    {i \in 1..Len(report.items) : report.items[i].value.items # <<>>}

\* C13: whenever some tool section of the report holds a sample id, the
\* extracted mapping is non-empty and its keys are the sample ids of a
\* non-empty tool section; the reference section of the extractor in
\* run_multiqc.py is non-empty too.
C13_UniverseFromFirstNonEmptySection ==
    (Extracted /\ NonEmptySections(Report) # {})
        => /\ meta_to_update.items # <<>>
           /\ \E i \in NonEmptySections(Report) :
                Keys(meta_to_update.items) = Keys(Report.items[i].value.items)
           /\ run_multiqc_reference_section(Report).items # <<>>

\* C14: when no tool section of the report holds a sample id, the extraction
\* ends the registration run with an error: no metadata update is sent and
\* nothing is registered.
C14_EmptyExtractionReported ==
    (pc = "done" /\ Report.t = "dict" /\ TableOfRows(Report)
            /\ NonEmptySections(Report) = {})
        => /\ mutations = <<>>
           /\ rpc \in {"idle", "crashed"}

\* the aggregated-report file exists but is not JSON, or not a mapping, or
\* lacks the 'report_general_stats_data' key
MalformedReport ==
    /\ multiqc_data_path \in DOMAIN files
    /\ LET parsed == json_load(files[multiqc_data_path].text)
       IN  \/ ~parsed.ok
           \/ parsed.v.t # "dict"
           \/ ~HasKey(parsed.v.items, "report_general_stats_data")

\* C15: with a malformed aggregated-report file the check run aborts: it
\* never gets past its evaluation loops to finish as a run that found no
\* failure, and the registration run registers nothing.
C15_MalformedReportFatal ==
    MalformedReport
        => /\ pc \notin {"post", "notify", "done"}
           /\ rpc \in {"idle", "crashed"}
           /\ mutations = <<>>

\* the update mutations sent so far, in order
Updates == SelectSeq(mutations, LAMBDA q : q.kind = "updateSequencingGroup")

\* the 'qc' object of an update mutation
Qc(q) == Lookup(q.meta.items, "qc")

\* C16: load_json of an absent file raises FileNotFoundError unless
\* allow_missing is set, and then returns the empty mapping; a file that is
\* not JSON raises JSONDecodeError with either setting.  So the check run
\* aborts on an absent or broken report, the registration run aborts on a
\* broken failure file, and with no failure file the registration run goes
\* on and registers every sequencing group with an empty failure list.
C16_AbsentFileByAllowMissing ==
    [][/\ pc = "start"
          => /\ multiqc_data_path \notin DOMAIN files
                    => pc' = "crashed" /\ error' = "FileNotFoundError"
             /\ (multiqc_data_path \in DOMAIN files
                    /\ ~json_load(files[multiqc_data_path].text).ok)
                    => pc' = "crashed" /\ error' = "JSONDecodeError"
       /\ (pc = "done" /\ rpc = "idle")
          => /\ failed_samples_path \notin DOMAIN files
                    => /\ rerror' \notin {"FileNotFoundError", "JSONDecodeError"}
                       /\ rpc' # "crashed" => failed_samples' = JDict(<<>>)
             /\ (failed_samples_path \in DOMAIN files
                    /\ ~json_load(files[failed_samples_path].text).ok)
                    => rpc' = "crashed" /\ rerror' = "JSONDecodeError"
       /\ (rpc = "update" /\ rpc' # "crashed" /\ failed_samples_path \notin DOMAIN files)
          => /\ Len(Updates') = Len(Updates) + 1
             /\ Updates'[Len(Updates')].id = cohort.sgs[g]
             /\ Lookup(Qc(Updates'[Len(Updates')]).items, "qc_checks_failed")
                    = JList(<<>>)]_vars

\* with no failure file, both groups of the cohort were registered with an
\* empty failure list
C16_Witness ==
    /\ rpc = "registered"
    /\ failed_samples_path \notin DOMAIN files
    /\ Len(cohort.sgs) = 2
    /\ Len(Updates) = 2
    /\ \A i \in 1..2 :
            Lookup(Qc(Updates[i]).items, "qc_checks_failed") = JList(<<>>)

\* the failure report the registration run reads
FailureReport == load_json(files, failed_samples_path, "", TRUE).data

\* C17: the registration run sends one update per sequencing group of the
\* cohort, in cohort order.  Its meta holds one object, 'qc', made of the
\* sixteen metric values of the group when the group is in the extraction
\* (and of nothing otherwise) plus qc_checks_failed, which is the group's
\* message list of the failure report when the report has the group as a key
\* and the empty list otherwise.
C17_OneUpdatePerGroup ==
    Extracted
        => /\ Len(Updates) = IF rpc = "update" THEN g - 1 ELSE Len(cohort.sgs)
           /\ \A i \in 1..Len(Updates) :
                LET q == Updates[i]
                    qc == Qc(q)
                IN  /\ q.id = cohort.sgs[i]
                    /\ Keys(q.meta.items) = {"qc"}
                    /\ Lookup(qc.items, "qc_checks_failed")
                            = IF HasKey(FailureReport.items, q.id)
                              THEN Lookup(FailureReport.items, q.id) ELSE JList(<<>>)
                    /\ IF HasKey(meta_to_update.items, q.id)
                       THEN /\ Keys(qc.items) = {metric_map[m][1] : m \in 1..Len(metric_map)}
                                                    \cup {"qc_checks_failed"}
                            /\ \A m \in 1..Len(metric_map) :
                                    Lookup(qc.items, metric_map[m][1])
                                        = Reported(Report, metric_map[m][2], q.id,
                                                   metric_map[m][3])
                       ELSE Keys(qc.items) = {"qc_checks_failed"}

\* the failing group CPG1 was registered with its coverage and its message,
\* the group CPG2, which the report lacks, with an empty list only
C17_Witness ==
    /\ rpc = "registered"
    /\ Len(Updates) = 2
    /\ Updates[1].id = SgId(1)
    /\ HasKey(Qc(Updates[1]).items, "mean_coverage")
    /\ Lookup(Qc(Updates[1]).items, "mean_coverage") = Num(0)
    /\ HasKey(bad_lines_by_sample, SgId(1))
    /\ Lookup(Qc(Updates[1]).items, "qc_checks_failed")
            = JList(<<Str(Lookup(bad_lines_by_sample, SgId(1))[1])>>)
    /\ Updates[2].id = SgId(2)
    /\ Qc(Updates[2]) = JDict(<<Entry("qc_checks_failed", JList(<<>>))>>)

\* the archive mutations sent so far
Archives == SelectSeq(mutations, LAMBDA q : q.kind = "archiveSequencingGroups")

\* C18: an archive mutation is sent at most once, as the last step of the
\* registration, and only when workflow.multiqc.deactivate_sgs is set to
\* true; its argument is the key list of the failure report the run loaded;
\* every group it names has at least one message in that report, and is a
\* failing sample of the check run when that run wrote the report.
C18_DeactivationOnlyOfFailed ==
    /\ Len(Archives) <= 1
    /\ Archives # <<>>
        => /\ rpc = "registered"
           /\ "deactivate_sgs" \in DOMAIN config.multiqc
           /\ config.multiqc["deactivate_sgs"] = Bool(TRUE)
           /\ Archives[1].ids = [i \in 1..Len(FailureReport.items) |->
                                    FailureReport.items[i].key]
           /\ \A i \in 1..Len(Archives[1].ids) :
                LET sg_id == Archives[1].ids[i]
                IN  /\ Lookup(FailureReport.items, sg_id).items # <<>>
                    /\ bad_lines_by_sample # <<>> => HasKey(bad_lines_by_sample, sg_id)
    /\ (rpc = "registered" /\ Archives = <<>>)
        => ("deactivate_sgs" \notin DOMAIN config.multiqc
                \/ config.multiqc["deactivate_sgs"] = Bool(FALSE))

\* with deactivation on, the failing group CPG1 was archived and the group
\* CPG2, registered with an empty failure list, was not
C18_Witness ==
    /\ rpc = "registered"
    /\ Archives = <<[kind |-> "archiveSequencingGroups", ids |-> <<SgId(1)>>]>>
    /\ Len(Updates) = 2
    /\ Updates[2].id = SgId(2)
    /\ Lookup(Qc(Updates[2]).items, "qc_checks_failed") = JList(<<>>)

\* the QCChecker of the run has been constructed
CheckerBuilt == pc \notin {"start"} /\ qc_checker # NoChecker

\* C19: the sex mapping of the QCChecker holds, for each sequencing group of
\* the registry's answer, meta['participant_portal_reported_sex'] when meta
\* is a mapping that holds a non-null value for it, otherwise reportedSex
\* when that is non-null, and no entry when both are missing or null; it
\* holds no other key.
C19_SexMappingPreference ==
    CheckerBuilt
        => /\ DOMAIN qc_checker.sex_mapping
                \subseteq {metamist[i].id : i \in 1..Len(metamist)}
           /\ \A i \in 1..Len(metamist) :
                LET sg == metamist[i]
                    meta == sg.participant.meta
                    field == "participant_portal_reported_sex"
                    preferred == IF meta.isdict /\ field \in DOMAIN meta.items
                                 THEN meta.items[field] ELSE None
                    reported == sg.participant.reportedSex
                IN  IF preferred # None
                    THEN /\ sg.id \in DOMAIN qc_checker.sex_mapping
                         /\ qc_checker.sex_mapping[sg.id] = preferred
                    ELSE IF reported # None
                    THEN /\ sg.id \in DOMAIN qc_checker.sex_mapping
                         /\ qc_checker.sex_mapping[sg.id] = reported
                    ELSE sg.id \notin DOMAIN qc_checker.sex_mapping

\* a participant with portal sex 1 and reportedSex 2 was mapped to 1
C19_Witness ==
    /\ CheckerBuilt
    /\ Len(metamist) = 1
    /\ metamist[1].participant.reportedSex = Num(2)
    /\ metamist[1].participant.meta = Meta(("participant_portal_reported_sex" :> Num(1)))
    /\ qc_checker.sex_mapping = (SgId(1) :> Num(1))

RECURSIVE Concat(_)
Concat(seqs) == IF seqs = <<>> THEN <<>> ELSE Head(seqs) \o Concat(Tail(seqs))

\* the sign a failure of a comparison kind is logged with
FailSign(check_type) ==
    (CHOOSE def \in {check_definitions[i] : i \in 1..Len(check_definitions)} :
        def.check_type = check_type).fail_sign

\* the message a (comparison kind, metric, row) contributes: one line when
\* the metric resolves to a value that fails the comparison, none otherwise
FailureLine(check_type, metric_config, val_by_metric, sg_id) ==
    LET got == get_metric_value(qc_checker.sex_mapping, metric_config, val_by_metric, sg_id)
        threshold == metric_config["threshold"]
    IN  IF got.exc # "" \/ Skipped(got.val) THEN <<>>
        ELSE IF is_fail_exc(check_type, got.val, threshold) # "" THEN <<>>
        ELSE IF ~is_fail(check_type, got.val, threshold) THEN <<>>
        ELSE <<format_log_line(metric_config["display_name"], got.val, threshold,
                               FailSign(check_type), check_type, got.raw, got.expected)>>

\* the messages of one comparison kind for a sample: report-section order,
\* and within a section's row the order of the kind's threshold table
LinesOfKind(check_type, sg_id) ==
    LET table == build_qc_thresholds(config.sequencing_type, check_type, config)
        report == qc_checker.multiqc_data
        OfRow(row) ==
            Concat([m \in 1..Len(table) |->
                        FailureLine(check_type, table[m].value, RowOf(row), sg_id)])
        OfSection(section) ==
            Concat([j \in 1..Len(section.items) |->
                        IF section.items[j].key = sg_id
                        THEN OfRow(section.items[j].value) ELSE <<>>])
    IN  Concat([i \in 1..Len(report.items) |-> OfSection(report.items[i].value)])

\* the sample ids of the report the run checks
ReportSamples ==
    UNION {Keys(qc_checker.multiqc_data.items[i].value.items) :
            i \in 1..Len(qc_checker.multiqc_data.items)}

\* C20: within a check run the failure mapping only grows, by one message at the end of one
\* sample's list in a step, and that in exactly the iterations that fail;
\* when the loops are over each sample's list is its 'min' messages, then
\* its 'max' messages, then its 'equality' messages, each kind in
\* report-section order and then threshold-table order, and samples without
\* a failure have no entry.
C20_MessagesInEvaluationOrder ==
    [][/\ (run' = run /\ bad_lines_by_sample' # bad_lines_by_sample)
            => /\ pc = "check"
               /\ last'.outcome = "failed"
               /\ bad_lines_by_sample'
                    = AppendLine(bad_lines_by_sample, last'.sg_id, last'.line)
       /\ (pc = "check" /\ last'.outcome = "failed")
            => /\ AppendedOne
               /\ Len(Lookup(bad_lines_by_sample', Current.sg_id))
                    = IF HasKey(bad_lines_by_sample, Current.sg_id)
                      THEN Len(Lookup(bad_lines_by_sample, Current.sg_id)) + 1 ELSE 1
       /\ (pc # "post" /\ pc' = "post")
            => /\ Keys(bad_lines_by_sample') \subseteq ReportSamples
               /\ \A sg_id \in ReportSamples :
                    LET lines == LinesOfKind("min", sg_id) \o LinesOfKind("max", sg_id)
                                    \o LinesOfKind("equality", sg_id)
                    IN  IF lines = <<>> THEN ~HasKey(bad_lines_by_sample', sg_id)
                        ELSE /\ HasKey(bad_lines_by_sample', sg_id)
                             /\ Lookup(bad_lines_by_sample', sg_id) = lines]_vars

\* a sample failed a 'min' check on one field and a 'max' check on another:
\* its list is the 'min' message followed by the 'max' message
C20_Witness ==
    /\ pc = "done"
    /\ HasKey(bad_lines_by_sample, SgId(1))
    /\ Len(LinesOfKind("min", SgId(1))) = 1
    /\ Len(LinesOfKind("max", SgId(1))) = 1
    /\ Lookup(bad_lines_by_sample, SgId(1))
            = LinesOfKind("min", SgId(1)) \o LinesOfKind("max", SgId(1))
    /\ LinesOfKind("min", SgId(1)) # LinesOfKind("max", SgId(1))

\* the lines of a text: the pieces between its newline characters
SplitLines(s) ==
    LET breaks == {i \in 1..Len(s) : SubSeq(s, i, i) = "\n"}
        Break(j) == IF j = 0 THEN 0
                    ELSE IF j > Cardinality(breaks) THEN Len(s) + 1
                    ELSE CHOOSE p \in breaks : Cardinality({q \in breaks : q < p}) = j - 1
    IN  [j \in 1..(Cardinality(breaks) + 1) |-> SubSeq(s, Break(j - 1) + 1, Break(j) - 1)]

\* a line of the summary that reports a failing sample
IsSampleLine(line) == Len(line) >= 2 /\ SubSeq(line, 1, 2) = "! "

\* C22: the summary built for a non-empty failure mapping ends with one line
\* per failing sample, in the mapping's order, each made of the sample id
\* and its messages joined by ', ' in their stored order, and has no other
\* sample line; the line before them is the title line; the banner, when
\* there is one, comes before the title line; the text is handed to the chat
\* system exactly when workflow.multiqc.send_to_slack is true or not set.
C22_SummaryContent ==
    /\ (pc = "done" /\ text # "")
        => LET lines == SplitLines(text)
               n == Len(bad_lines_by_sample)
               head == Len(lines) - n
           IN  /\ n > 0
               /\ head >= 1
               /\ Len(SelectSeq(lines, IsSampleLine)) = n
               /\ \A i \in 1..n :
                    lines[head + i]
                        = "! " \o bad_lines_by_sample[i].key \o ": "
                            \o Join(bad_lines_by_sample[i].value, ", ")
               /\ lines[head] = "*[" \o cohort.id \o "]* <URL|MultiQC report>. "
                                    \o ToString(n) \o " samples are flagged:"
               /\ IF SummaryHasBanner THEN head > 1 ELSE head = 1
               /\ IF "send_to_slack" \notin DOMAIN config.multiqc
                        \/ config.multiqc["send_to_slack"] = Bool(TRUE)
                  THEN slack # <<>> /\ slack[Len(slack)] = text
                  ELSE slack = <<>>
    /\ ("send_to_slack" \in DOMAIN config.multiqc
            /\ config.multiqc["send_to_slack"] = Bool(FALSE))
        => slack = <<>>
    /\ Len(slack) <= run

\* a summary with the banner and two samples, one of them with two messages,
\* was built and sent
C22_Witness ==
    /\ pc = "done"
    /\ text # ""
    /\ SummaryHasBanner
    /\ Len(bad_lines_by_sample) = 2
    /\ \E i \in 1..2 : Len(bad_lines_by_sample[i].value) = 2
    /\ slack = <<text>>

\* a summary was built with send_to_slack not set, and sent
C22_DefaultSent ==
    /\ pc = "done"
    /\ text # ""
    /\ "send_to_slack" \notin DOMAIN config.multiqc
    /\ slack = <<text>>

\* the failure list the latest check run found for a sequencing group
LatestFailures(sg_id) ==
    IF HasKey(bad_lines_by_sample, sg_id)
    THEN LET messages == Lookup(bad_lines_by_sample, sg_id)
         IN  JList([j \in 1..Len(messages) |-> Str(messages[j])])
    ELSE JList(<<>>)

\* C23: after any sequence of check runs of the cohort, the registration run
\* records for every sequencing group the failure list the latest check run
\* found for it (the empty list when that run flagged nothing), and an
\* archive mutation names exactly the samples the latest check run flagged.
C23_RegistrationReflectsLatestCheck ==
    /\ \A i \in 1..Len(Updates) :
            Lookup(Qc(Updates[i]).items, "qc_checks_failed") = LatestFailures(Updates[i].id)
    /\ \A i \in 1..Len(Archives) :
            Archives[i].ids = [j \in 1..Len(bad_lines_by_sample) |->
                                bad_lines_by_sample[j].key]

\* without a rerun the registration records what the one check run found
C23_SingleRun == run = 1 => C23_RegistrationReflectsLatestCheck

\* C26: in a check run with a failing sample the failure file is written
\* first and the summary is built next, and both steps complete whether or
\* not the dataset has a web url: post_to_slack is never reached with the
\* report url undefined.
C26_SummaryBuiltWithoutWebUrl ==
    [][/\ (pc = "post" /\ bad_lines_by_sample # <<>>)
            => /\ pc' = "notify"
               /\ output \in DOMAIN files'
               /\ files'[output] = File(FailuresTree(bad_lines_by_sample))
               /\ text' = text
       /\ pc = "notify"
            => /\ html_url
               /\ pc' = "done"
               /\ error' = ""
               /\ text' # ""]_vars

\* C27: the archive mutation is the last external effect of the registration
\* run: when it is sent, an update has returned for every sequencing group
\* of the cohort, in cohort order, and the output file holds the registered
\* metrics; a run ended by a failing update or a failing file write has
\* archived nothing.
C27_ArchiveLast ==
    /\ Archives # <<>>
        => /\ rpc = "registered"
           /\ mutations = Updates \o Archives
           /\ Len(Updates) = Len(cohort.sgs)
           /\ \A i \in 1..Len(Updates) : Updates[i].id = cohort.sgs[i]
           /\ registered_path \in DOMAIN files
           /\ files[registered_path] = File(meta_to_update)
    /\ rpc = "crashed" => Archives = <<>>
    /\ rpc \in {"update", "write", "deactivate"} => Archives = <<>>

\* with deactivation on, the failing group was archived after both updates
\* and the file write
C27_Witness ==
    /\ rpc = "registered"
    /\ Len(cohort.sgs) = 2
    /\ Len(mutations) = 3
    /\ mutations[3].kind = "archiveSequencingGroups"
    /\ mutations[3].ids = <<SgId(1)>>
    /\ registered_path \in DOMAIN files

\* with deactivation on and a failing group, the file write failed after both
\* updates and nothing was archived
C27_WriteFailed ==
    /\ rpc = "crashed"
    /\ rerror = "OSError"
    /\ deactivate_sgs
    /\ failed_samples.items # <<>>
    /\ Len(Updates) = 2
    /\ Archives = <<>>

\* what a reader of the registration's output file gets
RegisteredFile == load_json(files, registered_path, "", FALSE).data

\* C28: the output file of the registration run records what was
\* registered: every sequencing group an update was sent for has an entry,
\* equal to the 'qc' object sent for it, qc_checks_failed included; the
\* entry of a report sample outside the cohort has no qc_checks_failed key.
C28_FileRecordsRegistered ==
    registered_path \in DOMAIN files
        => /\ RegisteredFile.t = "dict"
           /\ \A i \in 1..Len(Updates) :
                /\ HasKey(RegisteredFile.items, Updates[i].id)
                /\ Lookup(RegisteredFile.items, Updates[i].id) = Qc(Updates[i])
           /\ \A j \in 1..Len(RegisteredFile.items) :
                LET entry == RegisteredFile.items[j]
                IN  (\A i \in 1..Len(cohort.sgs) : cohort.sgs[i] # entry.key)
                        => ~HasKey(entry.value.items, "qc_checks_failed")

\* the part of C28 that holds: entries of extracted groups equal what was
\* sent, entries of samples outside the cohort carry no qc_checks_failed
C28_ExtractedGroupsRecorded ==
    registered_path \in DOMAIN files
        => /\ RegisteredFile.t = "dict"
           /\ \A i \in 1..Len(Updates) :
                HasKey(RegisteredFile.items, Updates[i].id)
                    => Lookup(RegisteredFile.items, Updates[i].id) = Qc(Updates[i])
           /\ \A j \in 1..Len(RegisteredFile.items) :
                LET entry == RegisteredFile.items[j]
                IN  (\A i \in 1..Len(cohort.sgs) : cohort.sgs[i] # entry.key)
                        => ~HasKey(entry.value.items, "qc_checks_failed")

\* C29: every key of the failure mapping is a sample id of the report and a
\* sequencing group of the cohort, so the number of failed samples never
\* exceeds the total post_to_slack divides by, and the failure rate of the
\* banner is at most 100%.
C29_FailedWithinCohort ==
    pc \in {"check", "post", "notify", "done"}
        => /\ Keys(bad_lines_by_sample) \subseteq ReportSamples
           /\ Keys(bad_lines_by_sample)
                \subseteq {qc_checker.cohort_sgs[i] : i \in 1..Len(qc_checker.cohort_sgs)}
           /\ Len(bad_lines_by_sample) <= Len(qc_checker.cohort_sgs)

\* the part of C29 that holds: every failing sample is a sample of the report
C29_FailedWithinReport ==
    pc \in {"check", "post", "notify", "done"}
        => Keys(bad_lines_by_sample) \subseteq ReportSamples

\* the messages the sections before section number n contribute for a
\* (comparison kind, metric, sample) triple
EarlierLines(check_type, metric_config, sg_id, n) ==
    LET report == qc_checker.multiqc_data
        OfSection(section) ==
            Concat([j \in 1..Len(section.items) |->
                        IF section.items[j].key = sg_id
                        THEN FailureLine(check_type, metric_config,
                                         RowOf(section.items[j].value), sg_id)
                        ELSE <<>>])
    IN  Concat([i \in 1..(n - 1) |-> OfSection(report.items[i].value)])

\* C30: in one check run a (sample, metric, comparison kind) triple
\* contributes at most one message: when an iteration appends a message, no
\* earlier section of the report has given the sample a message for the
\* same metric and kind.
C30_OneMessagePerTriple ==
    [][(pc = "check" /\ last'.outcome = "failed")
            => EarlierLines(last'.check_type, Current.metric_config, last'.sg_id,
                            last'.section) = <<>>]_vars

\* the part of C30 that holds: within one section a triple is judged once
C30_OncePerSection ==
    [][(pc = "check" /\ pc' = "check")
            => <<Current.section, Current.sg_id, Current.metric>>
                    # <<Current'.section, Current'.sg_id, Current'.metric>>]_vars

\* a job has been started by the batch
Started(j) == jobs[j].status \in {"running", "done", "failed"}

\* a step is complete: its job has succeeded, or its outputs were there
Completed(j) == jobs[j].status \in {"done", "reused"}

\* C21: the check step starts only after the aggregation step is complete,
\* and the registration step only after the aggregation step and the check
\* step are complete; among the jobs of multiqc() the registration job waits
\* for the check job whenever one was created.
C21_StepsInOrder ==
    /\ Started("CheckMultiQc") => Completed("RunMultiQc")
    /\ Started("RegisterQcMetricsToMetamist")
        => Completed("RunMultiQc") /\ Completed("CheckMultiQc")
    /\ Started("check_j") => Completed("mqc_j")
    /\ Started("register_qc_j")
        => /\ Completed("mqc_j")
           /\ jobs["check_j"].status # "none" => Completed("check_j")

\* the registration job of multiqc() runs after the MultiQC job and the
\* check job have both succeeded
C21_Witness ==
    /\ jobs["register_qc_j"].status = "running"
    /\ jobs["check_j"].status = "done"
    /\ jobs["mqc_j"].status = "done"

\* the registration stage's job was started with both earlier stages complete
C21_StagesWitness ==
    /\ Started("RegisterQcMetricsToMetamist")
    /\ Completed("RunMultiQc")
    /\ Completed("CheckMultiQc")

\* C24: every call a stage hands to a Python job can be made: each keyword
\* is a parameter of the function called and every parameter gets a value,
\* so no driver ends on a refused call and no job fails before run starts.
C24_CallsBind ==
    /\ \A i \in 1..Len(calls) : Binds(calls[i])
    /\ derror # "BatchException"

\* C25: queueing the MultiQC job succeeds whenever a QC input path was
\* collected: the keys run_multiqc reads are keys of the expected outputs,
\* and the job writes the aggregated JSON to the path the registration stage
\* asks for under 'multiqc_json'.
C25_OutputKeysDeclared ==
    (entry_point = "stages" /\ driver # "RunMultiQc" /\ jobs["RunMultiQc"].status # "reused")
        => /\ derror # "KeyError"
           /\ jobs["RunMultiQc"].status # "none"
           /\ as_path_by_target("RunMultiQc", "multiqc_json").path
                \in jobs["RunMultiQc"].writes

====
